---- MODULE Spec2Model ----
(***************************************************************************)
(* A model of the request-dispatch core of arkoren/framework: path         *)
(* matching (Route.match), the route table (Router), the before/handler/   *)
(* after pipeline (Route.handle), the kernel (Kernel.handle, bootstrap),   *)
(* the application boundary (App.handleRequest) and the input validator    *)
(* (Validator.validate with its rules).                                    *)
(*                                                                         *)
(* A string the program takes apart (a path, a rule string, a message, a   *)
(* parameter value) is a sequence of one-character strings, so that split, *)
(* substr and replace are computed and not assumed.  A name the program    *)
(* only compares (a method, a middleware class, a group) is an atom.       *)
(***************************************************************************)
EXTENDS Integers, Sequences, FiniteSets, TLC

(***************************************************************************)
(* Bounds of the model.                                                    *)
(***************************************************************************)
MaxRoutePathLen == 4
MaxRequestPathLen == 3
MaxRoutes == 2
MaxRegistrars == 1
MaxBoot == 2
MaxRules == 2
MaxTextLen == 2
MaxTemplateLen == 4
MaxDepth == 2
MaxAdded == 2
MaxInFlight == 2

(***************************************************************************)
(* Strings.                                                                *)
(***************************************************************************)
\* All strings over alphabet of length at most n.
RECURSIVE StringsUpTo(_, _)
StringsUpTo(alphabet, n) ==
    IF n = 0 THEN { << >> }
    ELSE LET shorter == StringsUpTo(alphabet, n - 1)
         IN  shorter \cup { Append(s, c) : s \in shorter, c \in alphabet }

\* String.prototype.split(sep) for a one-character separator: the pieces
\* between the separators, empty pieces kept ("".split("/") is [""]).
RECURSIVE SplitFrom(_, _, _, _)
SplitFrom(str, sep, i, piece) ==
    IF i > Len(str) THEN << piece >>
    ELSE IF str[i] = sep
         THEN << piece >> \o SplitFrom(str, sep, i + 1, << >>)
         ELSE SplitFrom(str, sep, i + 1, Append(piece, str[i]))

Split(str, sep) == SplitFrom(str, sep, 1, << >>)

\* String.prototype.trim(): the white space at both ends removed.
RECURSIVE TrimStart(_)
TrimStart(str) ==
    IF str # << >> /\ str[1] = " " THEN TrimStart(Tail(str)) ELSE str
RECURSIVE TrimEnd(_)
TrimEnd(str) ==
    IF str # << >> /\ str[Len(str)] = " "
    THEN TrimEnd(SubSeq(str, 1, Len(str) - 1))
    ELSE str
Trim(str) == TrimEnd(TrimStart(str))

(***************************************************************************)
(* Path matcher: Route.segmentate, Route.buildSegments, Route.match.       *)
(***************************************************************************)
\* Method enum; Router.get and Router.post register GET and POST routes.
RouteMethods == { "GET", "POST" }
Methods == { "GET", "POST", "PUT" }

\* path.split('/').slice(1)
Segmentate(path) == Tail(Split(path, "/"))

Literal(text) == [ kind |-> "literal", text |-> text ]
Parameter(name) == [ kind |-> "parameter", name |-> name ]

\* A segment beginning with ':' is a Parameter named by the rest of it.
BuildSegments(path) ==
    LET segs == Segmentate(path)
    IN  [ i \in 1..Len(segs) |->
            IF Len(segs[i]) > 0 /\ segs[i][1] = ":"
            THEN Parameter(Tail(segs[i]))
            ELSE Literal(segs[i]) ]

\* The empty Parameters object {}.
NoParameters == << >>

\* Mutant: a name already bound keeps its first value.
SetParameter_KeepFirst(parameters, name, value) == parameters @@ (name :> value)

\* parameters[name] = value on a Parameters object.
SetParameter(parameters, name, value) == (name :> value) @@ parameters

\* The for loop of Route.match from position i on.
RECURSIVE MatchLoop(_, _, _, _)
MatchLoop(routeSegments, segments, i, parameters) ==
    IF i > Len(segments) THEN [ ok |-> TRUE, params |-> parameters ]
    ELSE LET current == routeSegments[i]
         IN  IF current.kind = "literal"
             THEN IF current.text # segments[i]
                  THEN [ ok |-> FALSE, params |-> NoParameters ]
                  ELSE MatchLoop(routeSegments, segments, i + 1, parameters)
             ELSE MatchLoop(routeSegments, segments, i + 1,
                            SetParameter(parameters, current.name, segments[i]))

\* Mutant: the methods are not compared.
Match_AnyMethod(route, request) ==
    LET segments == Segmentate(request.path)
    IN  IF Len(segments) # Len(route.segments)
        THEN [ ok |-> FALSE, params |-> NoParameters ]
        ELSE MatchLoop(route.segments, segments, 1, NoParameters)

\* Route.match(request): [matched, parameters].
Match(route, request) ==
    LET segments == Segmentate(request.path)
    IN  IF Len(segments) # Len(route.segments) \/ route.method # request.method
        THEN [ ok |-> FALSE, params |-> NoParameters ]
        ELSE MatchLoop(route.segments, segments, 1, NoParameters)


(***************************************************************************)
(* Responses: the response() helper and HTTPResponse.                      *)
(***************************************************************************)
\* Status enum values used by the core.
StatusOK == 200
StatusNotFound == 404
StatusUnprocessable == 422
StatusInternalServerError == 500

\* Raw values a handler or a hook can return.
Void == [ type |-> "undefined" ]
Text(str) == [ type |-> "string", text |-> str ]
Json(value) == [ type |-> "object", object |-> value ]

\* new TextEncoder().encode(str): the bytes of a text.
Encode(str) == [ utf8 |-> str ]
\* new TextEncoder().encode(JSON.stringify(value)): the bytes of its JSON text.
EncodeJson(value) == [ json |-> value ]

\* new HTTPResponse(status, body) followed by header('Content-Type', ctype).
HTTPResponse(status, body, ctype) ==
    [ type |-> "HTTPResponse", status |-> status,
      headers |-> ("Content-Type" :> ctype), body |-> body ]

\* Mutant: an HTTPResponse is serialised like any other object.
Response_Rewraps(res, status) ==
    IF res.type = "string"
    THEN HTTPResponse(status, Encode(res.text), "text/html")
    ELSE HTTPResponse(status,
                      EncodeJson(IF res.type = "HTTPResponse" THEN res ELSE res.object),
                      "application/json")

\* response(res, status): an HTTPResponse is returned as it is, a string
\* becomes a text/html response, anything else an application/json one.
Response(res, status) ==
    IF res.type = "HTTPResponse" THEN res
    ELSE IF res.type = "string"
         THEN HTTPResponse(status, Encode(res.text), "text/html")
         ELSE HTTPResponse(status, EncodeJson(res.object), "application/json")

\* if (possible_response): undefined and the empty string are falsy.
Truthy(value) ==
    /\ value.type # "undefined"
    /\ ~(value.type = "string" /\ value.text = << >>)

(***************************************************************************)
(* Errors: HTTPError, NotFound, ValidationFail and plain Error.            *)
(***************************************************************************)
NotFound ==
    [ class |-> "NotFound", http |-> TRUE, status |-> StatusNotFound,
      description |-> "Not Found", additional |-> << >> ]

ValidationFail(errors) ==
    [ class |-> "ValidationFail", http |-> TRUE, status |-> StatusUnprocessable,
      description |-> "Unprocessable Entity", additional |-> errors ]

\* new Error(message): not an HTTPError.
Error(message) == [ class |-> "Error", http |-> FALSE, message |-> message ]


(***************************************************************************)
(* Middleware options and their resolution: Route.optionsFrom,             *)
(* Route.mergeOptions, Kernel.middlewares_of.                              *)
(***************************************************************************)
\* RouterOptions.middleware: absent, a class, a list of classes or a group name.
NoMiddleware == [ type |-> "undefined" ]
MiddlewareClass(class) == [ type |-> "class", value |-> class ]
MiddlewareList(classes) == [ type |-> "array", value |-> classes ]
MiddlewareGroup(name) == [ type |-> "string", value |-> name ]

\* new m: an instance of middleware class m.
New(class) == [ class |-> class ]

\* Mutant: an unknown name resolves to the classes of every group.
RECURSIVE Flatten(_, _)
Flatten(groups, names) ==
    IF names = { } THEN << >>
    ELSE LET name == CHOOSE n \in names : TRUE
         IN  groups[name] \o Flatten(groups, names \ { name })
MiddlewaresOf_UnknownIsAll(groups, group) ==
    IF group \in DOMAIN groups THEN groups[group] ELSE Flatten(groups, DOMAIN groups)

\* Kernel.middlewares_of(group): the classes of the group, [] when unknown.
MiddlewaresOf(groups, group) ==
    IF group \in DOMAIN groups THEN groups[group] ELSE << >>

\* Route.optionsFrom({ middleware }, http_kernel): the instances the option
\* resolves to; an absent option and the empty group name are falsy.
OptionsFrom(options, groups) ==
    LET middleware == options.middleware
        classes ==
            IF middleware.type = "undefined" THEN << >>
            ELSE IF middleware.type = "array" THEN middleware.value
            ELSE IF middleware.type = "string"
                 THEN IF middleware.value = "" THEN << >>
                      ELSE MiddlewaresOf(groups, middleware.value)
            ELSE << middleware.value >>
    IN  [ middlewares |-> [ i \in 1..Len(classes) |-> New(classes[i]) ] ]

\* Route.mergeOptions(first, second)
MergeOptions(first, second) ==
    [ middlewares |-> first.middlewares \o second.middlewares ]

\* new Route(method, path, handler, [first, second])
Route(method, path, handler, first, second) ==
    [ method |-> method, path |-> path, segments |-> BuildSegments(path),
      handler |-> handler, options |-> MergeOptions(first, second) ]

\* Router.addRoute on a router with options routerOptions: the route list
\* with the new route pushed at its end.
AddRoute(routeList, routerOptions, groups, method, path, handler, options) ==
    Append(routeList,
           Route(method, path, handler,
                 OptionsFrom(routerOptions, groups), OptionsFrom(options, groups)))

\* Router.matchRoute(request): the first route of the list that matches, as
\* its index in the list (0 stands for null), with its parameters.
RECURSIVE MatchRouteFrom(_, _, _)
MatchRouteFrom(routeList, request, i) ==
    IF i > Len(routeList) THEN [ route |-> 0, params |-> NoParameters ]
    ELSE LET m == Match(routeList[i], request)
         IN  IF m.ok THEN [ route |-> i, params |-> m.params ]
             ELSE MatchRouteFrom(routeList, request, i + 1)

\* Mutant: the scan runs from the last route to the first.
RECURSIVE MatchRouteDownFrom(_, _, _)
MatchRouteDownFrom(routeList, request, i) ==
    IF i < 1 THEN [ route |-> 0, params |-> NoParameters ]
    ELSE LET m == Match(routeList[i], request)
         IN  IF m.ok THEN [ route |-> i, params |-> m.params ]
             ELSE MatchRouteDownFrom(routeList, request, i - 1)
MatchRoute_LastWins(routeList, request) ==
    MatchRouteDownFrom(routeList, request, Len(routeList))

MatchRoute(routeList, request) == MatchRouteFrom(routeList, request, 1)

\* An options object given to group() that has no middleware key.
NoKey == [ type |-> "absent" ]

\* Mutant: the group's options never replace the parent's.
Spread_KeepsParent(first, second) == first

\* { ...first, ...second } on RouterOptions: the middleware key of second,
\* when second has it, replaces the one of first.
Spread(first, second) ==
    [ middleware |-> IF second.middleware = NoKey
                     THEN first.middleware
                     ELSE second.middleware ]

\* new Router(http_kernel, options): no route yet.
Router(options) == [ options |-> options, routes |-> << >> ]

\* Mutant: the routes of the router are resolved again with the new options.
AssignOptions_Reresolves(router, options) ==
    [ options |-> options,
      routes |-> [ i \in 1..Len(router.routes) |->
                     [ router.routes[i] EXCEPT
                         !.options = OptionsFrom(options, << >>) ] ] ]

\* router.options = options: the router holds another options object; each
\* of its routes keeps the list its constructor merged.
AssignOptions(router, options) == [ router EXCEPT !.options = options ]

\* Mutant: the nested router's routes are put before the parent's.
AppendRoutes_NestedFirst(parentRoutes, nestedRoutes) == nestedRoutes \o parentRoutes

\* this.routes = [ ...this.routes, ...router.routes ]
AppendRoutes(parentRoutes, nestedRoutes) == parentRoutes \o nestedRoutes


(***************************************************************************)
(* Requests: the parameters of HTTPRequest and their accessors.            *)
(***************************************************************************)
\* HTTPParamValue: a string or null.
Null == [ type |-> "null" ]
Value(str) == [ type |-> "string", str |-> str ]

\* Mutant: a key counts only when its value is not null.
Has_NotNull(request, key) ==
    \/ key \in DOMAIN request.input_params /\ request.input_params[key] # Null
    \/ key \in DOMAIN request.query_params /\ request.query_params[key] # Null

\* HTTPRequest.has(key), for one key.
Has(request, key) ==
    key \in DOMAIN request.input_params \/ key \in DOMAIN request.query_params

\* HTTPRequest.query(search)
Query(request, search) ==
    IF search \in DOMAIN request.query_params
    THEN request.query_params[search]
    ELSE Null

\* Mutant: a null input parameter falls back to the query parameter.
Input_SkipsNull(request, search) ==
    IF search \in DOMAIN request.input_params /\ request.input_params[search] # Null
    THEN request.input_params[search]
    ELSE Query(request, search)

\* HTTPRequest.input(search)
Input(request, search) ==
    IF search \in DOMAIN request.input_params
    THEN request.input_params[search]
    ELSE Query(request, search)

\* Mutant: the query parameters are spread last.
All_QueryLast(request) == request.query_params @@ request.input_params

\* HTTPRequest.all(): { ...this.query_params, ...this.input_params }
All(request) == request.input_params @@ request.query_params

\* Mutant: every parameter of the request is returned, as all() does.
Only_All(request, fields) ==
    [ field \in DOMAIN request.input_params \cup DOMAIN request.query_params |->
        Input(request, field) ]

\* HTTPRequest.only(fields): input(field) for each field of the list.
Only(request, fields) ==
    [ field \in { fields[i] : i \in 1..Len(fields) } |-> Input(request, field) ]

\* The callbacks the TrimStrings middleware gives to transformInputAndQuery:
\* null and, outside the except list, the empty string become null, any
\* other value is trimmed; an earlier revision of the middleware only turns
\* the empty string into null.
TrimStringsCallback(except) == [ kind |-> "trim", except |-> except ]
EmptyToNullCallback(except) == [ kind |-> "empty", except |-> except ]

Includes(list, item) == \E i \in 1..Len(list) : list[i] = item

\* callback(name, value)
Apply(callback, name, value) ==
    IF callback.kind = "trim"
    THEN IF value = Null \/ (value = Value(<< >>) /\ ~Includes(callback.except, name))
         THEN Null
         ELSE Value(Trim(value.str))
    ELSE IF value = Value(<< >>) /\ ~Includes(callback.except, name)
         THEN Null
         ELSE value

\* HTTPRequest.transformInputAndQuery(input_callback, query_callback): both
\* loops call input_callback.
TransformInputAndQuery(request, input_callback, query_callback) ==
    [ input_params |->
        [ name \in DOMAIN request.input_params |->
            Apply(input_callback, name, request.input_params[name]) ],
      query_params |->
        [ name \in DOMAIN request.query_params |->
            Apply(input_callback, name, request.query_params[name]) ] ]

(***************************************************************************)
(* StringReplacer.replace.                                                 *)
(***************************************************************************)
\* The first index at or after i where pattern occurs in str, 0 when none.
RECURSIVE IndexOfFrom(_, _, _)
IndexOfFrom(str, pattern, i) ==
    IF i + Len(pattern) - 1 > Len(str) THEN 0
    ELSE IF SubSeq(str, i, i + Len(pattern) - 1) = pattern THEN i
    ELSE IndexOfFrom(str, pattern, i + 1)

\* The grave accent character (U+0060) as an element of a string.
Grave == "U+0060"

\* The text a replacement string stands for: $$ is a dollar sign, $& the
\* matched text, $ with a grave accent the text before the match and $' the
\* text after it; a string pattern captures nothing, so any other dollar sign
\* stands for itself.
RECURSIVE GetSubstitution(_, _, _, _)
GetSubstitution(matched, before, after, replacement) ==
    IF replacement = << >> THEN << >>
    ELSE IF replacement[1] = "$" /\ Len(replacement) >= 2
              /\ replacement[2] \in { "$", "&", Grave, "'" }
         THEN (IF replacement[2] = "$" THEN << "$" >>
               ELSE IF replacement[2] = "&" THEN matched
               ELSE IF replacement[2] = Grave THEN before
               ELSE after)
              \o GetSubstitution(matched, before, after,
                                 SubSeq(replacement, 3, Len(replacement)))
         ELSE << replacement[1] >>
              \o GetSubstitution(matched, before, after, Tail(replacement))

\* str.replace(pattern, replacement) for a string pattern: the first
\* occurrence alone is replaced, by what the replacement string stands for.
ReplaceFirst(str, pattern, replacement) ==
    LET at == IndexOfFrom(str, pattern, 1)
    IN  IF at = 0 THEN str
        ELSE LET before == SubSeq(str, 1, at - 1)
                 after == SubSeq(str, at + Len(pattern), Len(str))
             IN  before \o GetSubstitution(pattern, before, after, replacement) \o after

\* StringReplacer.replace(str, values): values is the list of the object's
\* [key, value] pairs in its key order; each turn replaces ':' + key.
RECURSIVE Replace(_, _)
Replace(str, values) ==
    IF values = << >> THEN str
    ELSE Replace(ReplaceFirst(str, << ":" >> \o values[1].key, values[1].value),
                 Tail(values))

(***************************************************************************)
(* Rules: validator_rules.ts.                                              *)
(***************************************************************************)
Str_nullable == << "n", "u", "l", "l", "a", "b", "l", "e" >>
Str_required == << "r", "e", "q", "u", "i", "r", "e", "d" >>
Str_accepted == << "a", "c", "c", "e", "p", "t", "e", "d" >>
Str_numeric == << "n", "u", "m", "e", "r", "i", "c" >>
Str_min == << "m", "i", "n" >>
Str_max == << "m", "a", "x" >>
Str_attribute == << "a", "t", "t", "r", "i", "b", "u", "t", "e" >>
Str_value == << "v", "a", "l", "u", "e" >>
Str_param_ == << "p", "a", "r", "a", "m", "_" >>
Str_yes == << "y", "e", "s" >>
Str_on == << "o", "n" >>
Str_1 == << "1" >>
Str_true == << "t", "r", "u", "e" >>
Str_false == << "f", "a", "l", "s", "e" >>
Str_0 == << "0" >>

\* The message templates of the rule classes.
MinMessage == << ":", "a", "t", "t", "r", "i", "b", "u", "t", "e", " ", "m", "u", "s", "t", " ", "b", "e", " ", "h", "i", "g", "h", "e", "r", " ", "t", "h", "a", "n", " ", ":", "p", "a", "r", "a", "m", "_", "0" >>
MaxMessage == << ":", "a", "t", "t", "r", "i", "b", "u", "t", "e", " ", "m", "u", "s", "t", " ", "b", "e", " ", "l", "o", "w", "e", "r", " ", "t", "h", "a", "n", " ", ":", "p", "a", "r", "a", "m", "_", "0" >>
NumericMessage == << ":", "a", "t", "t", "r", "i", "b", "u", "t", "e", " ", "m", "u", "s", "t", " ", "b", "e", " ", "n", "u", "m", "e", "r", "i", "c" >>
AcceptedMessage ==
    << ":", "a", "t", "t", "r", "i", "b", "u", "t", "e", " ", "m", "u", "s", "t", " ", "b", "e", " ", "e", "i", "t", "h", "e", "r", " ", "'", "y", "e", "s", "'", ",", " ", "'", "o", "n", "'", ",", " ", "'", "1", "'", " ", "o", "r", " ", "'", "t", "r", "u", "e", "'" >>
RequiredMessage == << ":", "a", "t", "t", "r", "i", "b", "u", "t", "e", " ", "i", "s", " ", "r", "e", "q", "u", "i", "r", "e", "d" >>

\* Mutant: RequiredRule keeps the default stopIfFail.
RuleInstance_RequiredGoesOn(class, message, targets) ==
    [ class |-> class, targets |-> targets, message |-> message,
      stopIfFail |-> FALSE,
      stopIfPass |-> class = "NullableRule",
      addErrorOnFailure |-> class # "NullableRule" ]

\* Mutant: NullableRule keeps the default addErrorOnFailure.
RuleInstance_NullableReports(class, message, targets) ==
    [ class |-> class, targets |-> targets, message |-> message,
      stopIfFail |-> class = "RequiredRule",
      stopIfPass |-> class = "NullableRule",
      addErrorOnFailure |-> TRUE ]

\* Mutant: NullableRule keeps the default stopIfPass.
RuleInstance_NullableGoesOn(class, message, targets) ==
    [ class |-> class, targets |-> targets, message |-> message,
      stopIfFail |-> class = "RequiredRule",
      stopIfPass |-> FALSE,
      addErrorOnFailure |-> class # "NullableRule" ]

\* A rule instance: its class, its targets, its message and its three flags
\* (stopIfFail, stopIfPass and addErrorOnFailure default to false, false, true).
RuleInstance(class, message, targets) ==
    [ class |-> class, targets |-> targets, message |-> message,
      stopIfFail |-> class = "RequiredRule",
      stopIfPass |-> class = "NullableRule",
      addErrorOnFailure |-> class # "NullableRule" ]

\* Mutant: a name that is no rule's resolves to RequiredRule.
FromName_UnknownRequired(name) ==
    IF name = Str_nullable THEN "NullableRule"
    ELSE IF name = Str_accepted THEN "AcceptedRule"
    ELSE IF name = Str_numeric THEN "NumericRule"
    ELSE IF name = Str_min THEN "MinRule"
    ELSE IF name = Str_max THEN "MaxRule"
    ELSE "RequiredRule"

\* Rule.fromName(name): the class of the name, IgnoreRule for any other name.
FromName(name) ==
    IF name = Str_nullable THEN "NullableRule"
    ELSE IF name = Str_required THEN "RequiredRule"
    ELSE IF name = Str_accepted THEN "AcceptedRule"
    ELSE IF name = Str_numeric THEN "NumericRule"
    ELSE IF name = Str_min THEN "MinRule"
    ELSE IF name = Str_max THEN "MaxRule"
    ELSE "IgnoreRule"

MessageOf(class) ==
    IF class = "MinRule" THEN MinMessage
    ELSE IF class = "MaxRule" THEN MaxMessage
    ELSE IF class = "NumericRule" THEN NumericMessage
    ELSE IF class = "AcceptedRule" THEN AcceptedMessage
    ELSE IF class = "RequiredRule" THEN RequiredMessage
    ELSE << >>

\* Decimal digits and the number a digit string writes.
Digits == { "0", "1", "2", "3", "4", "5", "6", "7", "8", "9" }
DigitValue(d) == CHOOSE n \in 0..9 : ToString(n) = d
IsDigits(str) == Len(str) > 0 /\ \A i \in 1..Len(str) : str[i] \in Digits
RECURSIVE Decimal(_)
Decimal(str) ==
    IF str = << >> THEN 0
    ELSE 10 * Decimal(SubSeq(str, 1, Len(str) - 1)) + DigitValue(str[Len(str)])

\* A JavaScript number: an integer or NaN.
Number(n) == [ nan |-> FALSE, n |-> n ]
NaN == [ nan |-> TRUE, n |-> 0 ]
\* Mutant: the comparison of min is not strict.
GreaterThan_OrEqual(x, y) == ~x.nan /\ ~y.nan /\ x.n >= y.n
GreaterThan(x, y) == ~x.nan /\ ~y.nan /\ x.n > y.n
LessThan(x, y) == ~x.nan /\ ~y.nan /\ x.n < y.n

\* The text between the first and the last character of str.
Inner(str) == SubSeq(str, 2, Len(str) - 1)

\* An array literal of decimal literals: [], [1], [1,2], ...
IsArrayLiteral(program) ==
    /\ Len(program) >= 2
    /\ program[1] = "["
    /\ program[Len(program)] = "]"
    /\ \/ Inner(program) = << >>
       \/ \A i \in 1..Len(Split(Inner(program), ",")) :
             IsDigits(Split(Inner(program), ",")[i])
ArrayLength(program) ==
    IF Inner(program) = << >> THEN 0 ELSE Len(Split(Inner(program), ","))

\* An object literal in parentheses, its properties written name:decimal:
\* ({}), ({a:1}), ({a:1,b:2}), ...
IsObjectLiteral(program) ==
    /\ Len(program) >= 4
    /\ SubSeq(program, 1, 2) = << "(", "{" >>
    /\ SubSeq(program, Len(program) - 1, Len(program)) = << "}", ")" >>
    /\ LET body == Inner(Inner(program))
       IN  \/ body = << >>
           \/ \A i \in 1..Len(Split(body, ",")) :
                 LET property == Split(Split(body, ",")[i], ":")
                 IN  /\ Len(property) = 2
                     /\ Len(property[1]) > 0
                     /\ \A j \in 1..Len(property[1]) : property[1][j] \in { "a", "b", "c" }
                     /\ IsDigits(property[2])
\* Object.keys of it: a name written twice is one key.
ObjectKeys(program) ==
    LET body == Inner(Inner(program))
    IN  IF body = << >> THEN { }
        ELSE { Split(Split(body, ",")[i], ":")[1] : i \in 1..Len(Split(body, ",")) }

\* eval(input) on the expressions the model's values write, white space
\* around them skipped: an empty program is undefined, a decimal literal is
\* that number, true and false are the booleans, an array literal is an
\* array, an object literal in parentheses is an object, and a word that
\* names no variable throws a ReferenceError.
EvalProgram(program) ==
    IF program = << >> THEN [ throws |-> FALSE, type |-> "undefined" ]
    ELSE IF IsDigits(program)
    THEN [ throws |-> FALSE, type |-> "number", number |-> Decimal(program) ]
    ELSE IF program = Str_true
    THEN [ throws |-> FALSE, type |-> "boolean", boolean |-> TRUE ]
    ELSE IF program = Str_false
    THEN [ throws |-> FALSE, type |-> "boolean", boolean |-> FALSE ]
    ELSE IF IsArrayLiteral(program)
    THEN [ throws |-> FALSE, type |-> "array", length |-> ArrayLength(program) ]
    ELSE IF IsObjectLiteral(program)
    THEN [ throws |-> FALSE, type |-> "object", keys |-> ObjectKeys(program) ]
    ELSE [ throws |-> TRUE ]
Eval(str) == EvalProgram(Trim(str))

\* The type transformParam gives for what eval gave (or for the raw string
\* when eval threw), and the number asNumber makes of it.
AsNumber(raw, result) ==
    IF result.throws
    THEN [ type |-> "string", size |-> Number(Len(raw)) ]
    ELSE IF result.type = "number"
    THEN [ type |-> "number", size |-> Number(result.number) ]
    ELSE IF result.type = "boolean"
    THEN [ type |-> "boolean", size |-> Number(IF result.boolean THEN 1 ELSE 0) ]
    ELSE IF result.type = "array"
    THEN [ type |-> "array", size |-> Number(result.length) ]
    ELSE IF result.type = "object"
    THEN [ type |-> "object", size |-> Number(Cardinality(result.keys)) ]
    ELSE [ type |-> "null", size |-> Number(0) ]

\* Mutant: a value that fails to evaluate has the size 0.
TransformParam_StringIsZero(input) ==
    IF input = Null \/ input.str = << >> THEN [ type |-> "null", size |-> Number(0) ]
    ELSE IF Eval(input.str).throws THEN [ type |-> "string", size |-> Number(0) ]
    ELSE AsNumber(input.str, Eval(input.str))

\* Rule.transformParam(input) followed by Rule.asNumber(type, value).
TransformParam(input) ==
    IF input = Null \/ input.str = << >> THEN [ type |-> "null", size |-> Number(0) ]
    ELSE AsNumber(input.str, Eval(input.str))

\* +target: the number a target string converts to; undefined (no target)
\* and a text that is no number give NaN, the empty string gives 0.
ToNumber(targets) ==
    IF Len(targets) = 0 THEN NaN
    ELSE IF targets[1] = << >> THEN Number(0)
    ELSE IF IsDigits(targets[1]) THEN Number(Decimal(targets[1]))
    ELSE NaN

\* Mutant: every string is accepted.
AcceptedPasses_AnyString(value) == value # Null

\* AcceptedRule.passes: value === 'yes' || 'on' || '1' || 'true'
AcceptedPasses(value) ==
    value \in { Value(Str_yes), Value(Str_on), Value(Str_1), Value(Str_true) }

\* Mutant: NullableRule empties the attribute's list of errors and keeps its key.
Passes_NullableEmpties(rule, request, attribute, value, errors) ==
    IF rule.class = "IgnoreRule" THEN [ passes |-> TRUE, errors |-> errors ]
    ELSE IF rule.class = "MinRule"
    THEN [ passes |-> GreaterThan(TransformParam(value).size, ToNumber(rule.targets)),
           errors |-> errors ]
    ELSE IF rule.class = "MaxRule"
    THEN [ passes |-> LessThan(TransformParam(value).size, ToNumber(rule.targets)),
           errors |-> errors ]
    ELSE IF rule.class = "NumericRule"
    THEN [ passes |-> TransformParam(value).type = "number", errors |-> errors ]
    ELSE IF rule.class = "AcceptedRule"
    THEN [ passes |-> AcceptedPasses(value), errors |-> errors ]
    ELSE IF rule.class = "NullableRule"
    THEN IF value = Null
         THEN [ passes |-> TRUE,
                errors |-> [ a \in DOMAIN errors |->
                               IF a = attribute THEN << >> ELSE errors[a] ] ]
         ELSE [ passes |-> FALSE, errors |-> errors ]
    ELSE [ passes |-> Has(request, attribute), errors |-> errors ]

\* Mutant: NullableRule deletes the errors of every attribute.
Passes_NullableClearsAll(rule, request, attribute, value, errors) ==
    IF rule.class = "IgnoreRule" THEN [ passes |-> TRUE, errors |-> errors ]
    ELSE IF rule.class = "MinRule"
    THEN [ passes |-> GreaterThan(TransformParam(value).size, ToNumber(rule.targets)),
           errors |-> errors ]
    ELSE IF rule.class = "MaxRule"
    THEN [ passes |-> LessThan(TransformParam(value).size, ToNumber(rule.targets)),
           errors |-> errors ]
    ELSE IF rule.class = "NumericRule"
    THEN [ passes |-> TransformParam(value).type = "number", errors |-> errors ]
    ELSE IF rule.class = "AcceptedRule"
    THEN [ passes |-> AcceptedPasses(value), errors |-> errors ]
    ELSE IF rule.class = "NullableRule"
    THEN IF value = Null
         THEN [ passes |-> TRUE, errors |-> << >> ]
         ELSE [ passes |-> FALSE, errors |-> errors ]
    ELSE [ passes |-> Has(request, attribute), errors |-> errors ]

\* rule.passes(attribute, value, errors): whether the rule passes, and the
\* errors object after the call (NullableRule deletes the attribute's errors).
Passes(rule, request, attribute, value, errors) ==
    IF rule.class = "IgnoreRule" THEN [ passes |-> TRUE, errors |-> errors ]
    ELSE IF rule.class = "MinRule"
    THEN [ passes |-> GreaterThan(TransformParam(value).size, ToNumber(rule.targets)),
           errors |-> errors ]
    ELSE IF rule.class = "MaxRule"
    THEN [ passes |-> LessThan(TransformParam(value).size, ToNumber(rule.targets)),
           errors |-> errors ]
    ELSE IF rule.class = "NumericRule"
    THEN [ passes |-> TransformParam(value).type = "number", errors |-> errors ]
    ELSE IF rule.class = "AcceptedRule"
    THEN [ passes |-> AcceptedPasses(value), errors |-> errors ]
    ELSE IF rule.class = "NullableRule"
    THEN IF value = Null
         THEN [ passes |-> TRUE,
                errors |-> [ a \in DOMAIN errors \ { attribute } |-> errors[a] ] ]
         ELSE [ passes |-> FALSE, errors |-> errors ]
    ELSE [ passes |-> Has(request, attribute), errors |-> errors ]

\* rule.placeholders(attribute, value) as the list of its [key, value] pairs:
\* attribute, value, then param_0, param_1, ... for the targets.
Placeholders(rule, attribute, value) ==
    << [ key |-> Str_attribute, value |-> attribute ],
       [ key |-> Str_value, value |-> IF value = Null THEN << >> ELSE value.str ] >>
    \o [ i \in 1..Len(rule.targets) |->
           [ key |-> Str_param_ \o << ToString(i - 1) >>, value |-> rule.targets[i] ] ]

(***************************************************************************)
(* Validator: the constructor and validate().                              *)
(***************************************************************************)
\* One pipe segment of a rule string: rule.split(':') gives the name and the
\* rest, and a non-empty rest is split on ','.
ParseRule(rule) ==
    LET parts == Split(rule, ":")
        name == parts[1]
        targets == IF Len(parts) >= 2 /\ parts[2] # << >>
                   THEN Split(parts[2], ",")
                   ELSE << >>
    IN  RuleInstance(FromName(name), MessageOf(FromName(name)), targets)

\* rules[attribute].split('|').map(...)
ParseRules(ruleString) ==
    LET pieces == Split(ruleString, "|")
    IN  [ i \in 1..Len(pieces) |-> ParseRule(pieces[i]) ]

\* Mutant: the message is put in front of the attribute's list.
AddError_InFront(errors, attribute, message) ==
    (attribute :>
        << message >>
            \o (IF attribute \in DOMAIN errors THEN errors[attribute] ELSE << >>)) @@ errors

\* errors[attribute] = [ ...(errors[attribute] ? errors[attribute] : []), message ]
AddError(errors, attribute, message) ==
    (attribute :>
        (IF attribute \in DOMAIN errors THEN errors[attribute] ELSE << >>)
            \o << message >>) @@ errors

\* The inner loop of validate() for one attribute, from rule i on.  state
\* holds the errors object and the list of the rule evaluations made.
RECURSIVE ValidateRules(_, _, _, _, _)
ValidateRules(request, attribute, rules, i, state) ==
    IF i > Len(rules) THEN state
    ELSE
      LET rule == rules[i]
          value == Input(request, attribute)
          verdict == Passes(rule, request, attribute, value, state.errors)
          added == ~verdict.passes /\ rule.addErrorOnFailure
          errors ==
              IF added
              THEN AddError(verdict.errors, attribute,
                            Replace(rule.message, Placeholders(rule, attribute, value)))
              ELSE verdict.errors
          after ==
              [ errors |-> errors,
                evaluated |-> Append(state.evaluated,
                                     [ attribute |-> attribute, rule |-> rule.class,
                                       passes |-> verdict.passes, added |-> added ]) ]
      IN  IF ~verdict.passes
          THEN IF rule.stopIfFail THEN after
               ELSE ValidateRules(request, attribute, rules, i + 1, after)
          ELSE IF rule.stopIfPass THEN after
               ELSE ValidateRules(request, attribute, rules, i + 1, after)

\* The outer loop of validate(): the attributes in declaration order.
RECURSIVE ValidateAttributes(_, _, _, _)
ValidateAttributes(request, rules, k, state) ==
    IF k > Len(rules) THEN state
    ELSE ValidateAttributes(request, rules, k + 1,
            ValidateRules(request, rules[k].attribute,
                          ParseRules(rules[k].rules), 1, state))

\* new Validator(request, rules).validate(): [valid, errors], with the rule
\* evaluations made on the way.
Validate(request, rules) ==
    LET final == ValidateAttributes(request, rules, 1,
                                    [ errors |-> << >>, evaluated |-> << >> ])
    IN  [ valid |-> DOMAIN final.errors = { }, errors |-> final.errors,
          evaluated |-> final.evaluated ]

\* Object.keys(rules)
Keys(rules) == [ k \in 1..Len(rules) |-> rules[k].attribute ]

\* HTTPRequest.validate(rules): the validated inputs, or ValidationFail thrown.
RequestValidate(request, rules) ==
    LET result == Validate(request, rules)
    IN  IF ~result.valid
        THEN [ throws |-> TRUE, error |-> ValidationFail(result.errors) ]
        ELSE [ throws |-> FALSE, value |-> Only(request, Keys(rules)) ]

(***************************************************************************)
(* State.                                                                  *)
(***************************************************************************)
VARIABLES
    \* Kernel
    middleware,             \* Kernel.middleware: the global stack of classes
    middleware_groups,      \* Kernel.middleware_groups: name -> classes
    kernel_routes,          \* Kernel.routes: the registrars to run on bootstrap
    middleware_instances,   \* Kernel.middleware_instances
    routes,                 \* Kernel.router.routes
    booted,                 \* number of Kernel.bootstrap calls so far
    \* App.handleRequest / Kernel.handle / Route.handle of the current request
    call,                   \* position and locals of the running pipeline
    log,                    \* hooks and handler run for the current request
    sent,                   \* responses given to req.respond for it
    \* Route.match applied to one route and one request
    m_route, m_request, m_result,
    \* Validator.validate applied to one request and one rule specification
    v_request, v_rules, v_result,
    \* HTTPRequest.validate applied to them: what it returned or threw
    v_validated,
    \* response(res, status) applied once, and again to what it returned
    p_res, p_status, p_response,
    \* StringReplacer.replace(str, values) applied to one string
    s_str, s_values, s_result,
    \* Router.group: the options of the kernel's router, the nested routers
    \* whose callbacks are running (innermost last), the registration calls
    \* made so far and what the last group call that returned did
    router_options, open_groups, registrations, returned,
    \* the number of middleware instances created so far (new m)
    instantiated,
    \* App.start's loop: the requests handleRequest was called for and has
    \* not answered yet, each with the position of its pipeline
    in_flight,
    \* HTTPRequest.transformInputAndQuery applied to one request with two
    \* callbacks: the call and the request it left
    t_call

serverVars == << in_flight >>
groupVars == << router_options, open_groups, registrations, returned >>
dispatchVars ==
    << middleware, middleware_groups, kernel_routes, middleware_instances,
       routes, booted, call, log, sent, groupVars, instantiated, serverVars >>
matchVars == << m_route, m_request, m_result >>
validateVars == << v_request, v_rules, v_result, v_validated >>
responseVars == << p_res, p_status, p_response >>
replaceVars == << s_str, s_values, s_result >>
transformVars == << t_call >>
vars == << dispatchVars, matchVars, validateVars, responseVars, replaceVars, transformVars >>

None == [ type |-> "none" ]

(***************************************************************************)
(* Inputs of the dispatch model.                                           *)
(***************************************************************************)
Str_a == << "/", "a" >>
Str_A == << "/", "A" >>
Str_param == << "/", ":", "a" >>

\* Paths routes are registered with, and paths of requests.
RoutePaths == { Str_a, Str_param }
RequestPaths == { Str_a, Str_A }
Requests == [ method : RouteMethods, path : RequestPaths ]

\* The options of a registration call.
RouteOptionChoices ==
    { [ middleware |-> NoMiddleware ], [ middleware |-> MiddlewareList(<< "C" >>) ] }

\* The top-level router is built with new Router(this): options {}.
RootOptions == [ middleware |-> NoMiddleware ]

\* Registrar callbacks given to add_routes: the calls each makes on the router.
Registrars ==
    [ web |-> << [ method |-> "GET", path |-> Str_a, handler |-> "web",
                   options |-> [ middleware |-> MiddlewareGroup("web") ] ] >>,
      api |-> << [ method |-> "POST", path |-> Str_param, handler |-> "api",
                   options |-> [ middleware |-> NoMiddleware ] ] >> ]

\* The global stack and the groups the application's Kernel declares.
MiddlewareStack == << "A", "B" >>
MiddlewareGroups == [ web |-> << "C" >> ]

Str_no == << "n", "o" >>
Str_ok == << "o", "k" >>
Str_boom == << "b", "o", "o", "m" >>
Str_is_required == << "a", " ", "i", "s", " ", "r", "e", "q", "u", "i", "r", "e", "d" >>

\* An HTTPResponse a hook or a handler built by itself.
Forbidden == HTTPResponse(403, Encode(Str_no), "text/plain")

\* What a hook can return, what a handler can return, what either can throw.
HookReturns == { Void, Text(<< >>), Text(Str_no), Forbidden }
HandlerReturns == { Text(<< >>), Text(Str_ok), Json([ id |-> 1 ]), Forbidden }
Thrown == { Error(Str_boom), ValidationFail(<< "a" >> :> << Str_is_required >>),
            NotFound }

Returns(value) == [ throws |-> FALSE, value |-> value ]
Throws(error) == [ throws |-> TRUE, error |-> error ]
HookOutcomes == { Returns(v) : v \in HookReturns } \cup { Throws(e) : e \in Thrown }
HandlerOutcomes == { Returns(v) : v \in HandlerReturns } \cup { Throws(e) : e \in Thrown }


(***************************************************************************)
(* Kernel.bootstrap and Kernel.handle.                                     *)
(***************************************************************************)
\* register(this.router) for one registrar: its calls, in order.
RECURSIVE RunRegistrar(_, _, _, _)
RunRegistrar(routeList, groups, calls, i) ==
    IF i > Len(calls) THEN routeList
    ELSE RunRegistrar(
            AddRoute(routeList, RootOptions, groups, calls[i].method,
                     calls[i].path, calls[i].handler, calls[i].options),
            groups, calls, i + 1)

\* Mutant: the registrars run from the last added to the first.
RECURSIVE RunRegistrars_Reversed(_, _, _, _)
RunRegistrars_Reversed(routeList, groups, registrars, i) ==
    IF i > Len(registrars) THEN routeList
    ELSE RunRegistrars_Reversed(
            RunRegistrar(routeList, groups,
                         Registrars[registrars[Len(registrars) - i + 1]], 1),
            groups, registrars, i + 1)

\* for (const register of this.routes) register(this.router)
RECURSIVE RunRegistrars(_, _, _, _)
RunRegistrars(routeList, groups, registrars, i) ==
    IF i > Len(registrars) THEN routeList
    ELSE RunRegistrars(
            RunRegistrar(routeList, groups, Registrars[registrars[i]], 1),
            groups, registrars, i + 1)

\* The instances the routes of the list hold: one new m for each class
\* optionsFrom resolved when the route was built.
RECURSIVE CountInstances(_)
CountInstances(routeList) ==
    IF routeList = << >> THEN 0
    ELSE Len(routeList[1].options.middlewares) + CountInstances(Tail(routeList))

\* this.middleware.map(middleware => new middleware)
Instantiate(classes) == [ i \in 1..Len(classes) |-> New(classes[i]) ]

\* Mutant: with no match the first route of the table handles the request.
KernelHandle_FallsBack(routeList, request) ==
    LET found == MatchRoute(routeList, request)
    IN  IF found.route # 0
        THEN [ throws |-> FALSE, route |-> found.route, params |-> found.params ]
        ELSE IF Len(routeList) > 0
        THEN [ throws |-> FALSE, route |-> 1, params |-> NoParameters ]
        ELSE Throws(NotFound)

\* Kernel.handle up to the call of route.handle: the matched route and its
\* parameters, or NotFound thrown.
KernelHandle(routeList, request) ==
    LET found == MatchRoute(routeList, request)
    IN  IF found.route # 0
        THEN [ throws |-> FALSE, route |-> found.route, params |-> found.params ]
        ELSE Throws(NotFound)

(***************************************************************************)
(* Route.handle, one hook or handler call at a time.  A call record holds  *)
(* the position (pc, i) and the locals of handle; canonicalized counts the *)
(* response() calls handle made, returned is the value Kernel.handle       *)
(* returned, thrown the error that left it and raised_in the place that    *)
(* threw it (kernel, before, handler or after).                            *)
(***************************************************************************)
IdleCall ==
    [ pc |-> "idle", request |-> None, route |-> 0, params |-> NoParameters,
      middlewares |-> << >>, i |-> 0, possible_response |-> Void, res |-> Void,
      canonicalized |-> 0, returned |-> None, thrown |-> None,
      raised_in |-> "" ]

\* const middlewares = [ ...globals, ...this.options.middlewares ]
EnterRoute(request, route, params, globals, own) ==
    LET middlewares == globals \o own
    IN  [ IdleCall EXCEPT !.pc = IF Len(middlewares) = 0 THEN "handler" ELSE "before",
                          !.request = request, !.route = route, !.params = params,
                          !.middlewares = middlewares, !.i = 1 ]

\* Mutant: the error is kept and the loop goes on.
Raise_GoesOn(c, error) == [ c EXCEPT !.thrown = error, !.raised_in = c.pc ]

\* An error leaves Route.handle and Kernel.handle.
Raise(c, error) == [ c EXCEPT !.pc = "done", !.thrown = error, !.raised_in = c.pc ]

\* return response(value): the value goes through response() once.
Return(c, value) ==
    [ c EXCEPT !.pc = "done", !.returned = Response(value, StatusOK),
               !.canonicalized = @ + 1 ]

\* The middleware whose hook the loop calls at position i.
BeforeMiddleware(c) == c.middlewares[c.i]
\* Mutant: the second loop walks the list from its end.
AfterMiddleware_Reversed(c) == c.middlewares[Len(c.middlewares) - c.i + 1]
AfterMiddleware(c) == c.middlewares[c.i]

\* Mutant: a response returned by a before hook is dropped.
BeforeStep_Ignored(c, outcome) ==
    IF outcome.throws THEN Raise(c, outcome.error)
    ELSE LET d == [ c EXCEPT !.possible_response = outcome.value ]
         IN  IF c.i < Len(c.middlewares) THEN [ d EXCEPT !.i = c.i + 1 ]
             ELSE [ d EXCEPT !.pc = "handler", !.i = 1 ]

\* One turn of the first loop: middleware.before(full_request) gave outcome.
BeforeStep(c, outcome) ==
    IF outcome.throws THEN Raise(c, outcome.error)
    ELSE LET d == [ c EXCEPT !.possible_response = outcome.value ]
         IN  IF Truthy(outcome.value) THEN Return(d, outcome.value)
             ELSE IF c.i < Len(c.middlewares) THEN [ d EXCEPT !.i = c.i + 1 ]
             ELSE [ d EXCEPT !.pc = "handler", !.i = 1 ]

\* const res = this.handler(full_request) gave outcome.
HandlerStep(c, outcome) ==
    IF outcome.throws THEN Raise(c, outcome.error)
    ELSE LET d == [ c EXCEPT !.res = outcome.value ]
         IN  IF Len(c.middlewares) = 0 THEN Return(d, d.res)
             ELSE [ d EXCEPT !.pc = "after", !.i = 1 ]

\* Mutant: an after hook's response stops the loop but the handler's is returned.
AfterStep_HandlersResponse(c, outcome) ==
    IF outcome.throws THEN Raise(c, outcome.error)
    ELSE LET d == [ c EXCEPT !.possible_response = outcome.value ]
         IN  IF Truthy(outcome.value) THEN Return(d, d.res)
             ELSE IF c.i < Len(c.middlewares) THEN [ d EXCEPT !.i = c.i + 1 ]
             ELSE Return(d, d.res)

\* One turn of the second loop: middleware.after(full_request, res) gave outcome.
AfterStep(c, outcome) ==
    IF outcome.throws THEN Raise(c, outcome.error)
    ELSE LET d == [ c EXCEPT !.possible_response = outcome.value ]
         IN  IF Truthy(outcome.value) THEN Return(d, outcome.value)
             ELSE IF c.i < Len(c.middlewares) THEN [ d EXCEPT !.i = c.i + 1 ]
             ELSE Return(d, d.res)

(***************************************************************************)
(* App.handleRequest: the try block around Kernel.handle.                  *)
(***************************************************************************)
\* handleResponse(req, res): respond(req, response(res))
HandleResponse(res) == Response(res, StatusOK)

\* Mutant: every error caught is answered with status 500.
CatchResponse_Always500(error) ==
    IF error.http
    THEN Response(Json([ error |-> error.description, additional |-> error.additional ]),
                  StatusInternalServerError)
    ELSE Response(Text(error.message), StatusInternalServerError)

\* The catch block: the response built from the error caught.
CatchResponse(error) ==
    IF error.http
    THEN Response(Json([ error |-> error.description, additional |-> error.additional ]),
                  error.status)
    ELSE Response(Text(error.message), StatusInternalServerError)

\* What handleRequest gives to req.respond once Kernel.handle is over.
Responses(c) ==
    IF c.pc # "done" THEN << >>
    ELSE IF c.thrown # None THEN << HandleResponse(CatchResponse(c.thrown)) >>
    ELSE << HandleResponse(c.returned) >>


(***************************************************************************)
(* Actions of the dispatch model.                                          *)
(***************************************************************************)
kernelVars == << middleware, middleware_groups, kernel_routes, middleware_instances,
                 routes, booted, groupVars, instantiated, serverVars >>
requestVars == << call, log, sent >>

\* app.router().get(path, handler, options)
RouterGet(path, handler, options) ==
    /\ call.pc = "idle"
    /\ Len(routes) < MaxRoutes
    /\ routes' = AddRoute(routes, RootOptions, middleware_groups, "GET", path,
                          handler, options)
    /\ instantiated' = instantiated + CountInstances(routes') - CountInstances(routes)
    /\ UNCHANGED << groupVars, middleware, middleware_groups, kernel_routes,
                    middleware_instances, booted, requestVars, serverVars, matchVars,
                    validateVars, responseVars, replaceVars, transformVars >>

\* Mutant: the registrar is also run on the router at once.
AddRoutes_RegistersNow(registrar) ==
    /\ call.pc = "idle"
    /\ Len(kernel_routes) < MaxRegistrars
    /\ kernel_routes' = Append(kernel_routes, registrar)
    /\ routes' = RunRegistrar(routes, middleware_groups, Registrars[registrar], 1)
    /\ Len(routes') <= MaxRoutes
    /\ UNCHANGED << groupVars, middleware, middleware_groups, middleware_instances,
                    booted, requestVars, serverVars, instantiated, matchVars,
                    validateVars, responseVars, replaceVars, transformVars >>

\* Kernel.add_routes(registrar)
AddRoutes(registrar) ==
    /\ call.pc = "idle"
    /\ Len(kernel_routes) < MaxRegistrars
    /\ kernel_routes' = Append(kernel_routes, registrar)
    /\ UNCHANGED << groupVars, middleware, middleware_groups, middleware_instances,
                    routes, booted, requestVars, serverVars, instantiated, matchVars, validateVars, responseVars, replaceVars, transformVars >>

\* Kernel.bootstrap()
Bootstrap ==
    /\ call.pc = "idle"
    /\ booted < MaxBoot
    /\ LET registered == RunRegistrars(routes, middleware_groups, kernel_routes, 1)
       IN  /\ Len(registered) <= MaxRoutes
           /\ routes' = registered
    /\ middleware_instances' = Instantiate(middleware)
    /\ instantiated' = instantiated + CountInstances(routes') - CountInstances(routes)
                            + Len(middleware_instances')
    /\ booted' = booted + 1
    /\ UNCHANGED << groupVars, middleware, middleware_groups, kernel_routes,
                    requestVars, serverVars, matchVars, validateVars, responseVars,
                    replaceVars, transformVars >>

\* Mutant: matchRoute takes the routes it tries out of the list.
HandleRequest_ShiftsRoutes(request) ==
    /\ call.pc = "idle"
    /\ LET found == KernelHandle(routes, request)
       IN  /\ call' = IF found.throws
                      THEN Raise([ IdleCall EXCEPT !.pc = "kernel", !.request = request ],
                                 found.error)
                      ELSE EnterRoute(request, 1, found.params, middleware_instances,
                                      routes[found.route].options.middlewares)
           /\ routes' = IF found.throws THEN << >>
                        ELSE SubSeq(routes, found.route, Len(routes))
    /\ log' = << >>
    /\ sent' = Responses(call')
    /\ UNCHANGED << middleware, middleware_groups, kernel_routes, middleware_instances,
                    booted, groupVars, instantiated, serverVars, matchVars,
                    validateVars, responseVars, replaceVars, transformVars >>

\* Mutant: the global stack is instantiated for each request.
HandleRequest_Instantiates(request) ==
    /\ call.pc = "idle"
    /\ LET found == KernelHandle(routes, request)
       IN  call' = IF found.throws
                   THEN Raise([ IdleCall EXCEPT !.pc = "kernel", !.request = request ],
                              found.error)
                   ELSE EnterRoute(request, found.route, found.params,
                                   Instantiate(middleware),
                                   routes[found.route].options.middlewares)
    /\ instantiated' = instantiated + Len(middleware)
    /\ log' = << >>
    /\ sent' = Responses(call')
    /\ UNCHANGED << middleware, middleware_groups, kernel_routes, middleware_instances,
                    routes, booted, groupVars, serverVars, matchVars, validateVars,
                    responseVars, replaceVars, transformVars >>

\* App.handleRequest(req) up to the first hook or handler call: Kernel.handle
\* matches the request and enters Route.handle, or NotFound is caught.
HandleRequest(request) ==
    /\ call.pc = "idle"
    /\ LET found == KernelHandle(routes, request)
       IN  call' = IF found.throws
                   THEN Raise([ IdleCall EXCEPT !.pc = "kernel", !.request = request ],
                              found.error)
                   ELSE EnterRoute(request, found.route, found.params,
                                   middleware_instances,
                                   routes[found.route].options.middlewares)
    /\ log' = << >>
    /\ sent' = Responses(call')
    /\ UNCHANGED << kernelVars, matchVars, validateVars, responseVars, replaceVars, transformVars >>

\* middleware.before(full_request) is called and gives outcome.
Before(outcome) ==
    /\ call.pc = "before"
    /\ log' = Append(log, [ hook |-> "before", position |-> call.i,
                            middleware |-> BeforeMiddleware(call) ])
    /\ call' = BeforeStep(call, outcome)
    /\ sent' = sent \o Responses(call')
    /\ UNCHANGED << kernelVars, matchVars, validateVars, responseVars, replaceVars, transformVars >>

\* this.handler(full_request) is called and gives outcome.
Handler(outcome) ==
    /\ call.pc = "handler"
    /\ log' = Append(log, [ hook |-> "handler", position |-> call.route,
                            middleware |-> routes[call.route].handler ])
    /\ call' = HandlerStep(call, outcome)
    /\ sent' = sent \o Responses(call')
    /\ UNCHANGED << kernelVars, matchVars, validateVars, responseVars, replaceVars, transformVars >>

\* middleware.after(full_request, res) is called and gives outcome.
After(outcome) ==
    /\ call.pc = "after"
    /\ log' = Append(log, [ hook |-> "after", position |-> call.i,
                            middleware |-> AfterMiddleware(call) ])
    /\ call' = AfterStep(call, outcome)
    /\ sent' = sent \o Responses(call')
    /\ UNCHANGED << kernelVars, matchVars, validateVars, responseVars, replaceVars, transformVars >>

\* handleRequest is over; the server loop takes the next request.
Finish ==
    /\ call.pc = "done"
    /\ call' = IdleCall
    /\ log' = << >>
    /\ sent' = << >>
    /\ UNCHANGED << kernelVars, matchVars, validateVars, responseVars, replaceVars, transformVars >>

\* The kernel's router as new Router(this) leaves it, no group call made.
GroupIdle ==
    /\ router_options = RootOptions
    /\ open_groups = << >>
    /\ registrations = << >>
    /\ returned = None

\* No request accepted.
ServerIdle == in_flight = << >>

MatchIdle ==
    /\ m_route = None
    /\ m_request = None
    /\ m_result = None

ResponseIdle ==
    /\ p_res = None
    /\ p_status = 0
    /\ p_response = None

ReplaceIdle ==
    /\ s_str = << >>
    /\ s_values = << >>
    /\ s_result = None

\* No transformInputAndQuery call under study.
TransformIdle == t_call = None

ValidateIdle ==
    /\ v_request = None
    /\ v_rules = << >>
    /\ v_result = None
    /\ v_validated = None

Init ==
    /\ middleware = MiddlewareStack
    /\ middleware_groups = MiddlewareGroups
    /\ kernel_routes = << >>
    /\ middleware_instances = << >>
    /\ routes = << >>
    /\ booted = 0
    /\ call = IdleCall
    /\ log = << >>
    /\ sent = << >>
    /\ GroupIdle
    /\ ServerIdle
    /\ instantiated = 0
    /\ MatchIdle
    /\ ResponseIdle
    /\ ReplaceIdle
    /\ TransformIdle
    /\ ValidateIdle

Next ==
    \/ \E path \in RoutePaths, options \in RouteOptionChoices :
          RouterGet(path, "get", options)
    \/ \E registrar \in DOMAIN Registrars : AddRoutes(registrar)
    \/ Bootstrap
    \/ \E request \in Requests : HandleRequest(request)
    \/ \E outcome \in HookOutcomes : Before(outcome)
    \/ \E outcome \in HandlerOutcomes : Handler(outcome)
    \/ \E outcome \in HookOutcomes : After(outcome)
    \/ Finish

Spec == Init /\ [][Next]_vars


(***************************************************************************)
(* Route.match on its own: one route, built by the Route constructor from  *)
(* any method and path, and one request.                                   *)
(***************************************************************************)
PathChars == { "/", ":", "a", "A" }

Str_users_pattern ==
    << "/", "u", "s", "e", "r", "s", "/", ":", "i", "d",
       "/", ":", "a", "c", "t", "i", "o", "n" >>
Str_users_path ==
    << "/", "u", "s", "e", "r", "s", "/", "4", "2", "/", "e", "d", "i", "t" >>

\* The paths a route is built from; a URL's pathname begins with '/'.
MatchRoutePaths == StringsUpTo(PathChars, MaxRoutePathLen) \cup { Str_users_pattern }
MatchRequestPaths ==
    { p \in StringsUpTo(PathChars, MaxRequestPathLen) : Len(p) > 0 /\ p[1] = "/" }
        \cup { Str_users_path }

DispatchIdle ==
    /\ middleware = << >>
    /\ middleware_groups = MiddlewareGroups
    /\ kernel_routes = << >>
    /\ middleware_instances = << >>
    /\ routes = << >>
    /\ booted = 0
    /\ call = IdleCall
    /\ log = << >>
    /\ sent = << >>
    /\ GroupIdle
    /\ ServerIdle
    /\ instantiated = 0

\* route.match(request)
RouteMatch(request) ==
    /\ m_request = None
    /\ m_request' = request
    /\ m_result' = Match(m_route, request)
    /\ UNCHANGED << m_route, dispatchVars, validateVars, responseVars, replaceVars, transformVars >>

InitMatch ==
    /\ DispatchIdle
    /\ m_route \in { Route(method, path, "h", [ middlewares |-> << >> ],
                           [ middlewares |-> << >> ]) :
                        method \in RouteMethods, path \in MatchRoutePaths }
    /\ m_request = None
    /\ m_result = None
    /\ ValidateIdle
    /\ ResponseIdle
    /\ ReplaceIdle
    /\ TransformIdle

NextMatch ==
    \E method \in RouteMethods, path \in MatchRequestPaths :
        RouteMatch([ path |-> path, method |-> method ])

SpecMatch == InitMatch /\ [][NextMatch]_vars


(***************************************************************************)
(* Validator.validate on its own: one request and one rule specification.  *)
(***************************************************************************)
Str_abc == << "a", "b", "c" >>
Str_5 == << "5" >>
Str_10 == << "1", "0" >>
Str_foo == << "f", "o", "o" >>
Attr_a == << "a" >>

\* The values a parameter can hold: a string, or null once a middleware
\* rewrote it through transformInputAndQuery.
ParamValues ==
    { Null, Value(<< >>), Value(Str_abc), Value(Str_1), Value(Str_5), Value(Str_10),
      Value(Str_yes), Value(Str_on), Value(Str_true), Value(Str_no), Value(Str_0) }

Attributes == { Attr_a }

\* Every mapping from some of the attributes to values.
ParamMappings == UNION { [ names -> ParamValues ] : names \in SUBSET Attributes }

ValidateRequests ==
    { [ input_params |-> input, query_params |-> query ] :
        input \in ParamMappings, query \in ParamMappings }

\* The pipe segments rule strings are made of; foo names no rule.
RuleSegments ==
    { Str_required, Str_nullable, Str_accepted, Str_numeric,
      Str_min \o << ":" >> \o Str_1, Str_max \o << ":" >> \o Str_10, Str_foo }

\* pieces.join(separator)
RECURSIVE Join(_, _)
Join(pieces, separator) ==
    IF Len(pieces) = 0 THEN << >>
    ELSE IF Len(pieces) = 1 THEN pieces[1]
    ELSE pieces[1] \o << separator >> \o Join(Tail(pieces), separator)

Str_required_numeric_min_max ==
    Join(<< Str_required, Str_numeric, Str_min \o << ":" >> \o Str_1,
            Str_max \o << ":" >> \o Str_10 >>, "|")
Str_nullable_numeric == Join(<< Str_nullable, Str_numeric >>, "|")

\* The rule strings of at most MaxRules segments, and the one of the
\* required-numeric-min-max example.
RuleStrings ==
    { Join(pieces, "|") :
        pieces \in UNION { [ 1..n -> RuleSegments ] : n \in 0..MaxRules } }
        \cup { Str_required_numeric_min_max }

\* A rule specification: the [attribute, rule string] pairs of the rules
\* object in declaration order.
RuleSpecs ==
    { << [ attribute |-> Attr_a, rules |-> ruleString ] >> : ruleString \in RuleStrings }

\* new Validator(request, rules).validate()
ValidatorValidate ==
    /\ v_result = None
    /\ v_result' = Validate(v_request, v_rules)
    /\ UNCHANGED << v_request, v_rules, v_validated, dispatchVars, matchVars, responseVars, replaceVars, transformVars >>

InitValidate ==
    /\ DispatchIdle
    /\ MatchIdle
    /\ ResponseIdle
    /\ ReplaceIdle
    /\ TransformIdle
    /\ v_request \in ValidateRequests
    /\ v_rules \in RuleSpecs
    /\ v_result = None
    /\ v_validated = None

NextValidate == ValidatorValidate

SpecValidate == InitValidate /\ [][NextValidate]_vars

(***************************************************************************)
(* HTTPRequest on its own: a request as the constructor leaves it, the     *)
(* transformInputAndQuery calls of middlewares, and validate(rules).       *)
(***************************************************************************)
Attr_b == << "b" >>
Str_space == << " " >>
Str_x_padded == << " ", "x", " " >>

\* The constructor fills both mappings from URLSearchParams: every value is
\* a string.
RequestNames == { Attr_a, Attr_b }
ConstructedValues == { Value(<< >>), Value(Str_space), Value(Str_5), Value(Str_x_padded) }
ConstructedParams ==
    UNION { [ names -> ConstructedValues ] : names \in SUBSET RequestNames }
ConstructedRequests ==
    { [ input_params |-> input, query_params |-> query ] :
        input \in ConstructedParams, query \in ConstructedParams }

Callbacks ==
    { TrimStringsCallback(except) : except \in { << >>, << Attr_a >> } }
        \cup { EmptyToNullCallback(except) : except \in { << >>, << Attr_a >> } }

\* The rules objects given to validate(): at most one rule string for each
\* attribute, in either declaration order.
RequestRuleStrings == { Str_required, Str_numeric, Str_nullable_numeric }
RequestRuleSpecs ==
    { << >> }
        \cup { << [ attribute |-> a, rules |-> r ] >> :
                  a \in RequestNames, r \in RequestRuleStrings }
        \cup { << [ attribute |-> p[1], rules |-> r ], [ attribute |-> p[2], rules |-> q ] >> :
                  p \in { n \in RequestNames \X RequestNames : n[1] # n[2] },
                  r \in RequestRuleStrings, q \in RequestRuleStrings }

\* request.transformInputAndQuery(input_callback, query_callback)
TransformRequest(input_callback, query_callback) ==
    /\ v_validated = None
    /\ v_request' = TransformInputAndQuery(v_request, input_callback, query_callback)
    /\ UNCHANGED << v_rules, v_result, v_validated, dispatchVars, matchVars, responseVars, replaceVars, transformVars >>

\* request.validate(rules)
ValidateRequest(rules) ==
    /\ v_validated = None
    /\ v_rules' = rules
    /\ v_validated' = RequestValidate(v_request, rules)
    /\ UNCHANGED << v_request, v_result, dispatchVars, matchVars, responseVars, replaceVars, transformVars >>

InitRequest ==
    /\ DispatchIdle
    /\ MatchIdle
    /\ ResponseIdle
    /\ ReplaceIdle
    /\ TransformIdle
    /\ v_request \in ConstructedRequests
    /\ v_rules = << >>
    /\ v_result = None
    /\ v_validated = None

NextRequest ==
    \/ \E input_callback \in Callbacks, query_callback \in Callbacks :
          TransformRequest(input_callback, query_callback)
    \/ \E rules \in RequestRuleSpecs : ValidateRequest(rules)

SpecRequest == InitRequest /\ [][NextRequest]_vars

(***************************************************************************)
(* response() on its own: one raw response and one status, canonicalized   *)
(* and then canonicalized again with any status.                           *)
(***************************************************************************)
Statuses == { StatusOK, StatusNotFound, StatusUnprocessable, StatusInternalServerError }

\* Response = string | object | HTTPResponse
RawTexts == { Text(str) : str \in StringsUpTo({ "a", "b" }, MaxTextLen) }
RawObjects == { Json([ id |-> 1 ]), Json([ error |-> Str_boom ]) }
BuiltResponses ==
    { HTTPResponse(status, Encode(str), ctype) :
        status \in Statuses, str \in { << >>, Str_no },
        ctype \in { "text/plain", "text/html" } }
RawResponses == RawTexts \cup RawObjects \cup BuiltResponses

\* response(response(res, status), again)
Canonicalize(again) ==
    /\ p_response = None
    /\ p_response' =
          LET once == Response(p_res, p_status)
          IN  [ once |-> once, again |-> again, twice |-> Response(once, again) ]
    /\ UNCHANGED << p_res, p_status, dispatchVars, matchVars, validateVars, replaceVars, transformVars >>

InitResponse ==
    /\ DispatchIdle
    /\ MatchIdle
    /\ ValidateIdle
    /\ ReplaceIdle
    /\ TransformIdle
    /\ p_res \in RawResponses
    /\ p_status \in Statuses
    /\ p_response = None

NextResponse == \E again \in Statuses : Canonicalize(again)

SpecResponse == InitResponse /\ [][NextResponse]_vars

(***************************************************************************)
(* StringReplacer.replace on its own: one template and one values object.  *)
(***************************************************************************)
Str_hello_name ==
    << "H", "e", "l", "l", "o", ",", " ", ":", "n", "a", "m", "e", "!" >>
Str_hello_world ==
    << "H", "e", "l", "l", "o", ",", " ", "w", "o", "r", "l", "d", "!" >>
Str_name == << "n", "a", "m", "e" >>
Str_world == << "w", "o", "r", "l", "d" >>

TemplateChars == { ":", "a", "b", "x" }
Templates == StringsUpTo(TemplateChars, MaxTemplateLen)

\* The keys of a values object and the strings they are given.
ReplaceKeys == { << "a" >>, << "b" >> }
ReplaceValues ==
    { << >>, << "x" >>, << ":" >>, << ":", "b" >>, << "$", "&" >>, << "$", "$" >> }

\* The values objects of at most two keys, in either insertion order.
ValueObjects ==
    { << >> }
        \cup { << [ key |-> k, value |-> v ] >> : k \in ReplaceKeys, v \in ReplaceValues }
        \cup { << [ key |-> p[1], value |-> v ], [ key |-> p[2], value |-> w ] >> :
                  p \in { n \in ReplaceKeys \X ReplaceKeys : n[1] # n[2] },
                  v \in ReplaceValues, w \in ReplaceValues }

\* StringReplacer.replace(str, values)
StringReplace ==
    /\ s_result = None
    /\ s_result' = [ str |-> Replace(s_str, s_values) ]
    /\ UNCHANGED << s_str, s_values, dispatchVars, matchVars, validateVars, responseVars,
                    transformVars >>

InitReplace ==
    /\ DispatchIdle
    /\ MatchIdle
    /\ ValidateIdle
    /\ ResponseIdle
    /\ TransformIdle
    /\ \/ s_str \in Templates /\ s_values \in ValueObjects
       \/ /\ s_str = Str_hello_name
          /\ s_values = << [ key |-> Str_name, value |-> Str_world ] >>
    /\ s_result = None

NextReplace == StringReplace

SpecReplace == InitReplace /\ [][NextReplace]_vars

(***************************************************************************)
(* Router.group on its own: registration calls on the kernel's router and  *)
(* on the nested routers given to group callbacks, with the options of the *)
(* kernel's router and the kernel's named groups changed once a group call *)
(* has returned.  A callback registers on the router it is given.          *)
(***************************************************************************)
\* The options given to group, and those assigned to router.options.
GroupOptionChoices ==
    << [ middleware |-> NoKey ],
       [ middleware |-> MiddlewareList(<< "X", "Y" >>) ],
       [ middleware |-> MiddlewareGroup("web") ] >>
\* The registration calls: method, path and options.
RegisterChoices ==
    { [ method |-> "GET", path |-> Str_a, options |-> [ middleware |-> NoMiddleware ] ],
      [ method |-> "POST", path |-> Str_param,
        options |-> [ middleware |-> MiddlewareClass("R") ] ] }
AssignedOptionChoices == { [ middleware |-> MiddlewareList(<< "P" >>) ] }
GroupMappings == { [ web |-> << "E" >> ] }

\* The router a running callback was given, the kernel's router when no
\* callback runs.
CurrentOptions ==
    IF open_groups = << >> THEN router_options
    ELSE open_groups[Len(open_groups)].router.options
CurrentRoutes ==
    IF open_groups = << >> THEN routes
    ELSE open_groups[Len(open_groups)].router.routes

\* router.get(path, handler, options) or router.post(path, handler, options)
RouterAdd(method, path, options) ==
    /\ Len(registrations) < MaxRoutes
    /\ LET handler == ToString(Len(registrations) + 1)
           added == AddRoute(CurrentRoutes, CurrentOptions, middleware_groups,
                             method, path, handler, options)
       IN  /\ IF open_groups = << >>
              THEN routes' = added /\ UNCHANGED open_groups
              ELSE /\ open_groups' =
                        [ open_groups EXCEPT ![Len(open_groups)].router.routes = added ]
                   /\ UNCHANGED routes
           /\ registrations' =
                 Append(registrations,
                        [ method |-> method, path |-> path, handler |-> handler,
                          options |-> options ])
           /\ instantiated' = instantiated + Len(added[Len(added)].options.middlewares)
    /\ UNCHANGED << router_options, returned, middleware, middleware_groups,
                    kernel_routes, middleware_instances, booted, requestVars, serverVars,
                    matchVars, validateVars, responseVars, replaceVars, transformVars >>

\* router.group(options, callback) up to the call of callback(router)
RouterGroup(options) ==
    /\ Len(open_groups) < MaxDepth
    /\ open_groups' =
          Append(open_groups,
                 [ router |-> Router(Spread(CurrentOptions, options)),
                   given |-> options, parent |-> CurrentOptions,
                   before |-> CurrentRoutes ])
    /\ UNCHANGED << router_options, registrations, returned, routes, middleware,
                    middleware_groups, kernel_routes, middleware_instances, booted,
                    requestVars, serverVars, instantiated, matchVars, validateVars, responseVars, replaceVars, transformVars >>

\* callback(router) returns and group appends the nested router's routes.
GroupReturn ==
    /\ open_groups # << >>
    /\ LET depth == Len(open_groups)
           nested == open_groups[depth].router.routes
           outer == SubSeq(open_groups, 1, depth - 1)
           merged == AppendRoutes(IF depth = 1 THEN routes
                                  ELSE open_groups[depth - 1].router.routes, nested)
       IN  IF depth = 1
           THEN routes' = merged /\ open_groups' = outer
           ELSE /\ open_groups' = [ outer EXCEPT ![depth - 1].router.routes = merged ]
                /\ UNCHANGED routes
    /\ returned' = [ options |-> open_groups[Len(open_groups)].router.options ]
    /\ UNCHANGED << router_options, registrations, middleware, middleware_groups,
                    kernel_routes, middleware_instances, booted, requestVars, serverVars, instantiated,
                    matchVars, validateVars, responseVars, replaceVars, transformVars >>

\* kernel.router.options = options, once a group call has returned
SetRouterOptions(options) ==
    /\ returned # None
    /\ open_groups = << >>
    /\ LET router == AssignOptions([ options |-> router_options, routes |-> routes ],
                                   options)
       IN  /\ router_options' = router.options
           /\ routes' = router.routes
    /\ UNCHANGED << open_groups, registrations, returned, middleware,
                    middleware_groups, kernel_routes, middleware_instances, booted,
                    requestVars, serverVars, instantiated, matchVars, validateVars, responseVars, replaceVars, transformVars >>

\* router.options = options on the nested router of the last group call,
\* which the callback kept; returned holds its options.
SetNestedOptions(options) ==
    /\ returned # None
    /\ open_groups = << >>
    /\ returned' = [ options |-> AssignOptions(Router(returned.options), options).options ]
    /\ UNCHANGED << router_options, open_groups, registrations, routes, middleware,
                    middleware_groups, kernel_routes, middleware_instances, booted,
                    requestVars, serverVars, instantiated, matchVars, validateVars, responseVars, replaceVars, transformVars >>

\* The kernel's middleware_groups mapping is given other classes, once a
\* group call has returned.
SetMiddlewareGroups(groups) ==
    /\ returned # None
    /\ open_groups = << >>
    /\ middleware_groups # groups
    /\ middleware_groups' = groups
    /\ UNCHANGED << groupVars, routes, middleware, kernel_routes,
                    middleware_instances, booted, requestVars, serverVars, instantiated, matchVars,
                    validateVars, responseVars, replaceVars, transformVars >>

\* A bootstrapped kernel with no registrar.
InitRouter ==
    /\ middleware = MiddlewareStack
    /\ middleware_groups = MiddlewareGroups
    /\ kernel_routes = << >>
    /\ middleware_instances = Instantiate(MiddlewareStack)
    /\ routes = << >>
    /\ booted = 1
    /\ call = IdleCall
    /\ log = << >>
    /\ sent = << >>
    /\ GroupIdle
    /\ ServerIdle
    /\ instantiated = Len(MiddlewareStack)
    /\ MatchIdle
    /\ ValidateIdle
    /\ ResponseIdle
    /\ ReplaceIdle
    /\ TransformIdle

NextRouter ==
    \/ \E route \in RegisterChoices :
          RouterAdd(route.method, route.path, route.options)
    \/ \E i \in DOMAIN GroupOptionChoices : RouterGroup(GroupOptionChoices[i])
    \/ GroupReturn
    \/ \E options \in AssignedOptionChoices : SetRouterOptions(options)
    \/ \E options \in AssignedOptionChoices : SetNestedOptions(options)
    \/ \E groups \in GroupMappings : SetMiddlewareGroups(groups)

SpecRouter == InitRouter /\ [][NextRouter]_vars

(***************************************************************************)
(* Properties of Route.match (specification SpecMatch).                    *)
(***************************************************************************)
\* The pieces of a path between its slashes, the leading one dropped.
PathPieces(path) == Tail(Split(path, "/"))
IsParameterPiece(piece) == Len(piece) > 0 /\ piece[1] = ":"

\* The request agrees with the route: same method, same number of segments,
\* and the same text wherever the route's segment is a literal.
Agrees(route, request) ==
    LET pattern == PathPieces(route.path)
        given == PathPieces(request.path)
    IN  /\ request.method = route.method
        /\ Len(given) = Len(pattern)
        /\ \A i \in 1..Len(pattern) :
              ~IsParameterPiece(pattern[i]) => given[i] = pattern[i]

\* C1: Route.match succeeds exactly when the method is the route's, the
\* request has as many segments as the route, and every literal segment of the
\* route is the request's segment at that position, letter case included; when
\* it fails the parameters returned are empty.
C1_MatchIffAgrees ==
    m_result # None =>
        /\ m_result.ok <=> Agrees(m_route, m_request)
        /\ ~m_result.ok => m_result.params = NoParameters

\* A match through a literal segment, and beside it requests refused for the
\* letter case of a literal alone.
C1_Witness ==
    /\ m_result # None
    /\ m_result.ok
    /\ m_route.path = << "/", "A", "/" >>
    /\ m_request.path = m_route.path
    /\ m_route.method = m_request.method

\* The positions of the route's parameter segments.
ParameterPositions(route) ==
    { i \in 1..Len(PathPieces(route.path)) : IsParameterPiece(PathPieces(route.path)[i]) }
ParameterName(route, i) == Tail(PathPieces(route.path)[i])

\* C6 as stated: on a match, the mapping binds the name of every parameter
\* segment to the request's segment at the same position.
C6_EveryPositionBound ==
    (m_result # None /\ m_result.ok) =>
        \A i \in ParameterPositions(m_route) :
            /\ ParameterName(m_route, i) \in DOMAIN m_result.params
            /\ m_result.params[ParameterName(m_route, i)] = PathPieces(m_request.path)[i]

\* C6, amended: on a match, the mapping's names are the names of the route's
\* parameter segments, and each name is bound to the request's segment at the
\* last position where the route has a parameter of that name, whatever its
\* text; /users/:id/:action and /users/42/edit give {id: "42", action: "edit"}.
C6_LastPositionBound ==
    (m_result # None /\ m_result.ok) =>
        /\ DOMAIN m_result.params =
              { ParameterName(m_route, i) : i \in ParameterPositions(m_route) }
        /\ \A i \in ParameterPositions(m_route) :
              (\A j \in ParameterPositions(m_route) :
                    ParameterName(m_route, j) = ParameterName(m_route, i) => j <= i)
                 => m_result.params[ParameterName(m_route, i)]
                       = PathPieces(m_request.path)[i]
        /\ (m_route.path = Str_users_pattern /\ m_request.path = Str_users_path)
              => m_result.params = (<< "i", "d" >> :> << "4", "2" >>)
                      @@ (<< "a", "c", "t", "i", "o", "n" >> :> << "e", "d", "i", "t" >>)

C6_Witness ==
    /\ m_result # None
    /\ m_result.ok
    /\ m_route.path = Str_users_pattern
    /\ m_request.path = Str_users_path
    /\ DOMAIN m_result.params = { << "i", "d" >>, << "a", "c", "t", "i", "o", "n" >> }


(***************************************************************************)
(* Properties of the dispatch pipeline (specification Spec).               *)
(***************************************************************************)
\* A request is being handled, or has just been answered.
Dispatched == call.pc # "idle"

\* The indexes of the routes of the table that match the request.
Matching(request) == { i \in 1..Len(routes) : Match(routes[i], request).ok }
Least(S) == CHOOSE i \in S : \A j \in S : i <= j

HookEntries(hook, middlewares) ==
    [ i \in 1..Len(middlewares) |->
        [ hook |-> hook, position |-> i, middleware |-> middlewares[i] ] ]
HandlerEntry(route) ==
    [ hook |-> "handler", position |-> route, middleware |-> routes[route].handler ]

\* The combined list of the route handling the request: globals first.
Combined(route) == middleware_instances \o routes[route].options.middlewares

\* The log of a pipeline that ran to its end.
FullLog(route) ==
    HookEntries("before", Combined(route)) \o << HandlerEntry(route) >>
        \o HookEntries("after", Combined(route))

IsPrefix(s, t) == Len(s) <= Len(t) /\ s = SubSeq(t, 1, Len(s))

\* No hook answered and nothing was thrown: Route.handle ran to its last line.
RanToEnd ==
    /\ call.pc = "done"
    /\ call.thrown = None
    /\ ~Truthy(call.possible_response)

\* C3: the before hooks run in the order of the combined list (globals, then
\* the route's own), then the handler once, then the after hooks in the same
\* order; when no hook returns a response all of them run.
C3_HooksInListOrder ==
    (Dispatched /\ call.route # 0) =>
        /\ IsPrefix(log, FullLog(call.route))
        /\ RanToEnd => log = FullLog(call.route)

\* Globals [A, B], route middlewares [C]: before A, B, C, handler, after A, B, C.
C3_Witness ==
    /\ RanToEnd
    /\ call.route # 0
    /\ middleware_instances = << New("A"), New("B") >>
    /\ routes[call.route].options.middlewares = << New("C") >>
    /\ [ i \in 1..Len(log) |-> << log[i].hook, log[i].middleware >> ] =
          << << "before", New("A") >>, << "before", New("B") >>,
             << "before", New("C") >>,
             << "handler", routes[call.route].handler >>,
             << "after", New("A") >>, << "after", New("B") >>,
             << "after", New("C") >> >>

\* The hook that ran last returned a non-empty response.
Answered(hook) ==
    /\ Len(log) > 0
    /\ log[Len(log)].hook = hook
    /\ call.raised_in # hook
    /\ Truthy(call.possible_response)

\* C4: when the before hook at position i returns a non-empty response, only
\* the before hooks up to i have run (no handler, no later before hook, no
\* after hook), and Route.handle returns that response put through response()
\* exactly once, which is what the request is answered with.
C4_BeforeShortCircuit ==
    Answered("before") =>
        LET i == log[Len(log)].position
        IN  /\ call.pc = "done"
            /\ call.thrown = None
            /\ log = SubSeq(HookEntries("before", Combined(call.route)), 1, i)
            /\ call.canonicalized = 1
            /\ call.returned = Response(call.possible_response, StatusOK)
            /\ sent = << call.returned >>

\* B of [A, B, C] answers with a text: C never runs.
C4_Witness ==
    /\ Answered("before")
    /\ Len(call.middlewares) = 3
    /\ log[Len(log)].position = 2
    /\ call.possible_response = Text(Str_no)

\* C5: when no before hook answers and the after hook at position i returns a
\* non-empty response, the after hooks behind i do not run and Route.handle
\* returns that response, canonicalized, instead of the handler's; when no
\* hook answers at all it returns the handler's response, canonicalized.
C5_AfterShortCircuit ==
    /\ Answered("after") =>
          LET i == log[Len(log)].position
          IN  /\ call.pc = "done"
              /\ call.thrown = None
              /\ log = HookEntries("before", Combined(call.route))
                         \o << HandlerEntry(call.route) >>
                         \o SubSeq(HookEntries("after", Combined(call.route)), 1, i)
              /\ call.returned = Response(call.possible_response, StatusOK)
              /\ call.canonicalized = 1
    /\ (RanToEnd /\ call.route # 0) =>
          /\ call.returned = Response(call.res, StatusOK)
          /\ call.canonicalized = 1

\* The first of three after hooks answers over a handler that said "ok".
C5_Witness ==
    /\ Answered("after")
    /\ Len(call.middlewares) = 3
    /\ log[Len(log)].position = 1
    /\ call.res = Text(Str_ok)
    /\ call.returned = Forbidden

\* C7: Kernel.handle itself raises NotFound (status 404) exactly when
\* matchRoute finds no route, and then no hook and no handler has run; when a
\* route matches, that route handles the request with the kernel's
\* middleware instances as globals.
C7_NotFoundIffNoRoute ==
    Dispatched =>
        LET found == MatchRoute(routes, call.request)
        IN  /\ call.raised_in = "kernel" <=> found.route = 0
            /\ found.route = 0 =>
                  /\ call.thrown = NotFound
                  /\ call.thrown.status = 404
                  /\ log = << >>
                  /\ call.middlewares = << >>
            /\ found.route # 0 =>
                  /\ call.route = found.route
                  /\ call.params = found.params
                  /\ call.middlewares =
                        middleware_instances \o routes[found.route].options.middlewares
                  /\ \A k \in 1..Len(log) :
                        log[k].hook = "handler" =>
                            log[k].middleware = routes[found.route].handler

\* A table with routes and globals, and a request none of the routes matches.
C7_Witness ==
    /\ call.pc = "done"
    /\ Len(routes) = 2
    /\ Len(middleware_instances) = 2
    /\ call.raised_in = "kernel"
    /\ call.thrown = NotFound
    /\ log = << >>

ErrorsOf(attribute) ==
    IF attribute \in DOMAIN v_result.errors THEN v_result.errors[attribute] ELSE << >>
\* The classes of the rules evaluated for an attribute, in order.
RECURSIVE EvaluatedFrom(_, _)
EvaluatedFrom(evaluated, attribute) ==
    IF evaluated = << >> THEN << >>
    ELSE (IF evaluated[1].attribute = attribute THEN << evaluated[1].rule >> ELSE << >>)
            \o EvaluatedFrom(Tail(evaluated), attribute)

\* C9: "required|numeric|min:1|max:10" for an attribute that is in neither
\* the input nor the query parameters gives exactly one error for it,
\* "<attribute> is required", and evaluates the required rule alone.
C9_RequiredStopsTheRest ==
    (/\ v_result # None
     /\ v_rules[1].rules = Str_required_numeric_min_max
     /\ ~Has(v_request, v_rules[1].attribute))
    => LET attribute == v_rules[1].attribute
       IN  /\ ErrorsOf(attribute) = << attribute \o << " ", "i", "s", " ", "r", "e", "q", "u", "i", "r", "e", "d" >> >>
           /\ EvaluatedFrom(v_result.evaluated, attribute) = << "RequiredRule" >>
           /\ ~v_result.valid

C9_Witness ==
    /\ v_result # None
    /\ v_rules[1].rules = Str_required_numeric_min_max
    /\ v_request.input_params = << >>
    /\ v_request.query_params = << >>
    /\ v_result.errors = (Attr_a :> << << "a", " ", "i", "s", " ", "r", "e", "q", "u", "i", "r", "e", "d" >> >>)

\* C10: "nullable|numeric" gives no error for the attribute when its value is
\* null (absent), and exactly the numeric rule's message when the value is a
\* string that writes no number; and under no rule string does the nullable
\* rule add an error.
C10_NullableThenNumeric ==
    v_result # None =>
        LET attribute == v_rules[1].attribute
            value == Input(v_request, attribute)
        IN  /\ v_rules[1].rules = Str_nullable_numeric =>
                  /\ value = Null =>
                        /\ attribute \notin DOMAIN v_result.errors
                        /\ v_result.valid
                  /\ (value # Null /\ ~IsDigits(value.str)) =>
                        ErrorsOf(attribute) = << attribute \o << " ", "m", "u", "s", "t", " ", "b", "e", " ", "n", "u", "m", "e", "r", "i", "c" >> >>
            /\ \A k \in 1..Len(v_result.evaluated) :
                  v_result.evaluated[k].rule = "NullableRule"
                      => ~v_result.evaluated[k].added

\* A word in the input parameters fails nullable silently and numeric aloud.
C10_Witness ==
    /\ v_result # None
    /\ v_rules[1].rules = Str_nullable_numeric
    /\ Input(v_request, Attr_a) = Value(<< "a", "b", "c" >>)
    /\ v_result.errors = (Attr_a :> << << "a", " ", "m", "u", "s", "t", " ", "b", "e", " ", "n", "u", "m", "e", "r", "i", "c" >> >>)
    /\ EvaluatedFrom(v_result.evaluated, Attr_a) = << "NullableRule", "NumericRule" >>

\* C11: the result of validate() is valid exactly when its errors object has
\* no key, and every key of the errors object holds at least one message,
\* also when a nullable rule cleared the errors of an attribute.
C11_ValidIffNoErrors ==
    v_result # None =>
        /\ v_result.valid <=> (DOMAIN v_result.errors = { })
        /\ \A a \in DOMAIN v_result.errors : Len(v_result.errors[a]) > 0

\* A rule added an error for the attribute and a later nullable rule cleared it.
C11_Witness ==
    /\ v_result # None
    /\ v_result.valid
    /\ \E k \in 1..Len(v_result.evaluated) :
          /\ v_result.evaluated[k].added
          /\ \E l \in (k + 1)..Len(v_result.evaluated) :
                /\ v_result.evaluated[l].rule = "NullableRule"
                /\ v_result.evaluated[l].passes

\* The message the accepted rule adds for attribute a.
Str_a_must_be_accepted == Attr_a \o SubSeq(AcceptedMessage, 11, Len(AcceptedMessage))

\* C13: the accepted rule passes exactly when the value is one of the strings
\* yes, on, 1 and true; every other value (no, 0, the empty string, null
\* among them) fails and adds the accepted rule's error.
C13_AcceptedValues ==
    v_result # None =>
        /\ \A k \in 1..Len(v_result.evaluated) :
              LET entry == v_result.evaluated[k]
                  value == Input(v_request, entry.attribute)
              IN  entry.rule = "AcceptedRule" =>
                    /\ entry.passes <=>
                          value \in { Value(Str_yes), Value(Str_on), Value(Str_1),
                                      Value(Str_true) }
                    /\ value \in { Value(Str_no), Value(Str_0), Value(<< >>), Null }
                          => ~entry.passes
                    /\ ~entry.passes => entry.added
        /\ v_rules[1].rules = Str_accepted =>
              IF Input(v_request, Attr_a) \in { Value(Str_yes), Value(Str_on),
                                                Value(Str_1), Value(Str_true) }
              THEN v_result.valid
              ELSE v_result.errors = (Attr_a :> << Str_a_must_be_accepted >>)

\* The accepted rule refused the value no.
C13_Witness ==
    /\ v_result # None
    /\ v_rules[1].rules = Str_accepted
    /\ Input(v_request, Attr_a) = Value(Str_no)
    /\ ~v_result.valid
    /\ v_result.errors = (Attr_a :> << Str_a_must_be_accepted >>)

\* The names Rule.fromName knows, and segments whose name is none of them.
RuleNames == { Str_required, Str_nullable, Str_accepted, Str_numeric, Str_min, Str_max }
UnknownSegments == { Str_foo, Str_foo \o << ":" >> \o Str_1, << >> }

\* pieces with segment put in after position p.
InsertAt(pieces, p, segment) ==
    SubSeq(pieces, 1, p) \o << segment >> \o SubSeq(pieces, p + 1, Len(pieces))

\* C17: a pipe segment whose name is none of required, nullable, accepted,
\* numeric, min and max resolves to IgnoreRule, which passes, adds no error
\* and does not stop the rules after it; putting such a segment at any
\* position of the rule string leaves valid and errors as they are.
C17_UnknownRulesIgnored ==
    v_result # None =>
        LET attribute == v_rules[1].attribute
            pieces == Split(v_rules[1].rules, "|")
        IN  /\ \A k \in 1..Len(pieces) :
                  (Split(pieces[k], ":")[1] \notin RuleNames)
                      <=> ParseRule(pieces[k]).class = "IgnoreRule"
            /\ \A k \in 1..Len(v_result.evaluated) :
                  v_result.evaluated[k].rule = "IgnoreRule" =>
                      /\ v_result.evaluated[k].passes
                      /\ ~v_result.evaluated[k].added
                      /\ k < Len(pieces) => Len(v_result.evaluated) > k
            /\ \A p \in 0..Len(pieces), segment \in UnknownSegments :
                  LET with == Validate(v_request,
                                << [ attribute |-> attribute,
                                     rules |-> Join(InsertAt(pieces, p, segment), "|") ] >>)
                  IN  /\ with.valid = v_result.valid
                      /\ with.errors = v_result.errors

\* An unknown segment stands before the numeric rule, which goes on to fail.
C17_Witness ==
    /\ v_result # None
    /\ v_rules[1].rules = Join(<< Str_foo, Str_numeric >>, "|")
    /\ Input(v_request, Attr_a) = Value(Str_abc)
    /\ EvaluatedFrom(v_result.evaluated, Attr_a) = << "IgnoreRule", "NumericRule" >>
    /\ ~v_result.valid
    /\ Len(v_result.errors[Attr_a]) = 1

(***************************************************************************)
(* Properties of HTTPRequest (specification SpecRequest).                  *)
(***************************************************************************)
Declared(rules) == { rules[k].attribute : k \in 1..Len(rules) }

\* C12: when the validator finds no error, request.validate(rules) returns a
\* mapping whose keys are exactly the attributes declared in rules, each with
\* input(attribute); when it finds an error, validate returns nothing and
\* throws ValidationFail with status 422 and the validator's errors object.
C12_ValidateReturnsDeclared ==
    v_validated # None =>
        LET result == Validate(v_request, v_rules)
        IN  /\ DOMAIN result.errors = { } =>
                /\ ~v_validated.throws
                /\ DOMAIN v_validated.value = Declared(v_rules)
                /\ \A a \in Declared(v_rules) :
                      v_validated.value[a] = Input(v_request, a)
            /\ DOMAIN result.errors # { } =>
                /\ v_validated.throws
                /\ v_validated.error.class = "ValidationFail"
                /\ v_validated.error.status = StatusUnprocessable
                /\ v_validated.error.additional = result.errors

\* validate succeeded on a request that holds a parameter the rules do not
\* declare.
C12_Witness ==
    /\ v_validated # None
    /\ ~v_validated.throws
    /\ DOMAIN v_validated.value = { Attr_a }
    /\ Attr_b \in DOMAIN v_request.input_params
    /\ v_request.input_params[Attr_b] # Null

Attr_c == << "c" >>

\* C16: in every state of a request, input(name) is the input parameter's
\* value when name is a key of the input parameters, null included, and
\* query(name) otherwise; query(name) is null when name is no query parameter.
C16_InputFallsBackToQuery ==
    v_request # None =>
        \A name \in RequestNames \cup { Attr_c } :
            /\ Input(v_request, name) =
                  IF name \in DOMAIN v_request.input_params
                  THEN v_request.input_params[name]
                  ELSE Query(v_request, name)
            /\ name \notin DOMAIN v_request.query_params
                  => Query(v_request, name) = Null

\* A transformation left a null input parameter beside a query parameter of
\* the same name that holds a string.
C16_Witness ==
    /\ v_request # None
    /\ Attr_a \in DOMAIN v_request.input_params
    /\ v_request.input_params[Attr_a] = Null
    /\ Attr_a \in DOMAIN v_request.query_params
    /\ v_request.query_params[Attr_a] # Null
    /\ Input(v_request, Attr_a) = Null
    /\ Attr_b \notin DOMAIN v_request.input_params
    /\ Attr_b \in DOMAIN v_request.query_params
    /\ Input(v_request, Attr_b) = v_request.query_params[Attr_b]

(***************************************************************************)
(* Properties of response() (specification SpecResponse).                  *)
(***************************************************************************)
\* C14: canonicalizing a canonical response again, with any status, gives
\* the same status, headers and body, and a response that was already built
\* goes through response() unchanged whatever the status argument is.
C14_ResponseIdempotent ==
    p_response # None =>
        /\ p_response.once.type = "HTTPResponse"
        /\ p_response.twice.status = p_response.once.status
        /\ p_response.twice.headers = p_response.once.headers
        /\ p_response.twice.body = p_response.once.body
        /\ p_res.type = "HTTPResponse" => p_response.once = p_res

\* A text canonicalized with status 404 and then again with status 200.
C14_Witness ==
    /\ p_response # None
    /\ p_res = Text(<< "a" >>)
    /\ p_status = StatusNotFound
    /\ p_response.again = StatusOK
    /\ p_response.once.status = StatusNotFound
    /\ p_response.twice = p_response.once

(***************************************************************************)
(* Properties of StringReplacer.replace (specification SpecReplace).       *)
(***************************************************************************)
Token(key) == << ":" >> \o key

\* The number of places where pattern occurs in str, from position i on.
RECURSIVE CountFrom(_, _, _)
CountFrom(str, pattern, i) ==
    IF i + Len(pattern) - 1 > Len(str) THEN 0
    ELSE (IF SubSeq(str, i, i + Len(pattern) - 1) = pattern THEN 1 ELSE 0)
            + CountFrom(str, pattern, i + 1)

Contains(str, pattern) == IndexOfFrom(str, pattern, 1) # 0

\* The keys whose token stands at position i of str.
KeysAt(str, values, i) ==
    { k \in 1..Len(values) :
        /\ i + Len(values[k].key) <= Len(str)
        /\ SubSeq(str, i, i + Len(values[k].key)) = Token(values[k].key) }

\* str with every token replaced, at its place, by the value of its key.
RECURSIVE Substituted(_, _, _)
Substituted(str, values, i) ==
    IF i > Len(str) THEN << >>
    ELSE IF KeysAt(str, values, i) # { }
         THEN LET k == CHOOSE k \in KeysAt(str, values, i) : TRUE
              IN  values[k].value
                    \o Substituted(str, values, i + Len(values[k].key) + 1)
         ELSE << str[i] >> \o Substituted(str, values, i + 1)

\* str with the first occurrence of pattern replaced by the text itself.
FirstReplaced(str, pattern, text) ==
    LET at == IndexOfFrom(str, pattern, 1)
    IN  IF at = 0 THEN str
        ELSE SubSeq(str, 1, at - 1) \o text \o SubSeq(str, at + Len(pattern), Len(str))

EachTokenOnce ==
    \A k \in 1..Len(s_values) : CountFrom(s_str, Token(s_values[k].key), 1) = 1
NoValueHoldsToken ==
    \A k, j \in 1..Len(s_values) :
        ~Contains(s_values[k].value, Token(s_values[j].key))

\* C18: replace(str, values) replaces the token ':key' by values[key] for
\* every key: when each token occurs once in str and no value contains a
\* token the result is str with every token substituted by its value; for a
\* single key only the first occurrence of its token is replaced, by the
\* value; 'Hello, :name!' with name 'world' gives 'Hello, world!'.
C18_TokensReplacedByValues ==
    s_result # None =>
        /\ (EachTokenOnce /\ NoValueHoldsToken)
              => s_result.str = Substituted(s_str, s_values, 1)
        /\ Len(s_values) = 1
              => s_result.str =
                    FirstReplaced(s_str, Token(s_values[1].key), s_values[1].value)
        /\ s_str = Str_hello_name => s_result.str = Str_hello_world

(***************************************************************************)
(* Properties of Router.group (specification SpecRouter).                  *)
(***************************************************************************)
\* The routes registered so far, those of the kernel's router first, then
\* those of the nested router of each running group call, outermost first.
RECURSIVE RoutesFrom(_)
RoutesFrom(d) ==
    IF d > Len(open_groups) THEN << >>
    ELSE open_groups[d].router.routes \o RoutesFrom(d + 1)
AllRoutes == routes \o RoutesFrom(1)

\* The hooks Route.handle runs for a request to the route.
Hooks(globals, route) ==
    EnterRoute(None, 0, NoParameters, globals, route.options.middlewares).middlewares

\* C19: a route registered on the nested router of group({middleware: X}, cb),
\* called on a router whose middleware option is P, with route-level
\* middleware R, resolves to the instances of X followed by those of R; when
\* the group's options have no middleware key, to those of P followed by
\* those of R.
C19_GroupOverridesParent ==
    [][ (open_groups # << >> /\ Len(registrations') = Len(registrations) + 1) =>
          LET top == open_groups[Len(open_groups)]
              X == top.given
              P == top.parent
              R == registrations'[Len(registrations')].options
              added == open_groups'[Len(open_groups)].router.routes
              level == IF X.middleware = NoKey THEN P ELSE X
          IN  added[Len(added)].options.middlewares =
                  OptionsFrom(level, middleware_groups).middlewares
                      \o OptionsFrom(R, middleware_groups).middlewares ]_vars

\* A group "web" opened inside a group [X, Y]: the route with middleware R
\* registered in it has the instances of the group "web", then R.
C19_Witness ==
    /\ Len(open_groups) = 2
    /\ open_groups[2].parent.middleware.type = "array"
    /\ open_groups[2].parent.middleware.value = << "X", "Y" >>
    /\ open_groups[2].given.middleware.type = "string"
    /\ Len(open_groups[2].router.routes) = 1
    /\ open_groups[2].router.routes[1].options.middlewares = << New("C"), New("R") >>

\* C20: when a group call returns, the route list of the router it was called
\* on is its list from before the call followed by the nested router's
\* routes; at any depth of nesting the registered routes are, in registration
\* order, the routes cb gave, each with its method, path and handler.
C20_GroupAppendsRoutes ==
    /\ [][ Len(open_groups') < Len(open_groups) =>
             LET d == Len(open_groups)
                 parent == IF d = 1 THEN routes'
                           ELSE open_groups'[d - 1].router.routes
             IN  parent = open_groups[d].before \o open_groups[d].router.routes ]_vars
    /\ [](/\ Len(AllRoutes) = Len(registrations)
          /\ \A k \in 1..Len(registrations) :
                /\ AllRoutes[k].method = registrations[k].method
                /\ AllRoutes[k].path = registrations[k].path
                /\ AllRoutes[k].handler = registrations[k].handler)

\* A group called inside the callback of a group [X, Y] has returned: its
\* route stands behind the one the outer callback registered before it.
C20_Witness ==
    /\ Len(open_groups) = 1
    /\ open_groups[1].given.middleware.type = "array"
    /\ Len(open_groups[1].router.routes) = 2
    /\ open_groups[1].router.routes[1].options.middlewares = << New("X"), New("Y") >>
    /\ open_groups[1].router.routes[2].options.middlewares = << New("C") >>
    /\ open_groups[1].router.routes[2].handler = "2"
    /\ returned # None

\* C15: no step changes the resolved middleware list of a registered route,
\* nor the hooks that run for a request to it: not an assignment to the
\* options of the enclosing or of the nested router, not a change of the
\* kernel's named groups.
C15_ResolvedListFixed ==
    [][ \A k \in 1..Len(AllRoutes) :
          /\ k <= Len(AllRoutes')
          /\ AllRoutes'[k].options.middlewares = AllRoutes[k].options.middlewares
          /\ Hooks(middleware_instances', AllRoutes'[k])
                 = Hooks(middleware_instances, AllRoutes[k]) ]_vars

\* A route registered in a group "web" still has the instance of C after the
\* group returned and the enclosing router's options, the nested router's
\* options and the classes of "web" were all changed.
C15_Witness ==
    /\ open_groups = << >>
    /\ returned # None
    /\ returned.options.middleware.type = "array"
    /\ returned.options.middleware.value = << "P" >>
    /\ router_options.middleware.type = "array"
    /\ middleware_groups.web = << "E" >>
    /\ \E k \in 1..Len(routes) :
          /\ routes[k].options.middlewares = << New("C") >>
          /\ Hooks(middleware_instances, routes[k]) = << New("A"), New("B"), New("C") >>

(***************************************************************************)
(* Kernel.bootstrap on its own, as App.start calls it: the providers have  *)
(* added their registrars, routes may have been registered on the router   *)
(* directly, and the application declares any global stack.                *)
(***************************************************************************)
\* The registrars the providers added, in the order of the add_routes calls.
RegistrarLists == StringsUpTo(DOMAIN Registrars, MaxAdded)
\* The global stacks an application's Kernel declares.
MiddlewareStacks == { << >>, << "A" >>, << "A", "B" >>, << "B", "A" >> }

InitBoot ==
    /\ middleware \in MiddlewareStacks
    /\ middleware_groups = MiddlewareGroups
    /\ kernel_routes \in RegistrarLists
    /\ middleware_instances = << >>
    /\ routes = << >>
    /\ booted = 0
    /\ call = IdleCall
    /\ log = << >>
    /\ sent = << >>
    /\ GroupIdle
    /\ ServerIdle
    /\ instantiated = 0
    /\ MatchIdle
    /\ ResponseIdle
    /\ ReplaceIdle
    /\ TransformIdle
    /\ ValidateIdle

NextBoot ==
    \/ \E path \in RoutePaths, options \in RouteOptionChoices :
          RouterGet(path, "get", options)
    \/ Bootstrap

SpecBoot == InitBoot /\ [][NextBoot]_vars

(***************************************************************************)
(* Properties of Kernel.bootstrap (specification SpecBoot).                *)
(***************************************************************************)
\* The routes of the registrars from position i on, each run alone on an
\* empty router, one registrar after the other.
RECURSIVE RoutesOfRegistrars(_, _)
RoutesOfRegistrars(registrars, i) ==
    IF i > Len(registrars) THEN << >>
    ELSE RunRegistrar(<< >>, middleware_groups, Registrars[registrars[i]], 1)
            \o RoutesOfRegistrars(registrars, i + 1)

\* C21: a bootstrap call leaves the router with its routes from before
\* followed by the routes of each registrar, once, in the order the
\* registrars were added, and the middleware-instance list with one instance
\* of each class of the global stack, in stack order.
C21_BootstrapRunsRegistrarsInOrder ==
    [][ booted' = booted + 1 =>
          /\ routes' = routes \o RoutesOfRegistrars(kernel_routes, 1)
          /\ Len(middleware_instances') = Len(middleware)
          /\ \A i \in 1..Len(middleware) :
                middleware_instances'[i] = New(middleware[i]) ]_vars

\* Bootstrap ran with the registrars api, web and the stack B, A.
C21_Witness ==
    /\ booted = 1
    /\ kernel_routes = << "api", "web" >>
    /\ Len(routes) = 2
    /\ routes[1].handler = "api"
    /\ routes[2].handler = "web"
    /\ middleware_instances = << New("B"), New("A") >>

(***************************************************************************)
(* Properties of the kernel's state under requests (specification Spec).   *)
(***************************************************************************)
\* A step of handleRequest: it begins, goes on or ends the running pipeline.
RequestStep == call.pc # "idle" \/ call'.pc # "idle"

\* C22: no step of a Kernel.handle call, whether it finds a route or not, is
\* cut short or not, fails or not, changes the router's route list (the
\* method, segments and resolved middleware list of every route with it) or
\* the kernel's middleware-instance list.
C22_HandleReadsOnly ==
    [][ RequestStep =>
          /\ routes' = routes
          /\ middleware_instances' = middleware_instances ]_vars

\* After bootstrap, with two routes, an after hook has just failed.
C22_Witness ==
    /\ booted = 1
    /\ Len(routes) = 2
    /\ call.pc = "done"
    /\ call.raised_in = "after"
    /\ Len(log) > Len(call.middlewares) + 1

\* C23: the instances created are those of the routes, made when addRoute
\* ran, and those of the global stack, made by bootstrap; no step of a
\* request creates one, and a running pipeline has the kernel's global
\* instances followed by the instances of its route.
C23_ResolvedOnceAtRegistration ==
    /\ [][ RequestStep => instantiated' = instantiated ]_vars
    /\ [](/\ instantiated = CountInstances(routes) + booted * Len(middleware)
          /\ call.pc \in { "before", "handler", "after" } =>
                call.middlewares = Combined(call.route))

\* The after loop of a request runs the two global instances and the one of
\* its route; three instances were created in all.
C23_Witness ==
    /\ booted = 1
    /\ Len(routes) = 1
    /\ call.pc = "after"
    /\ call.i = 3
    /\ call.middlewares = << New("A"), New("B"), New("C") >>
    /\ instantiated = 3

\* C25: once a hook or the handler has raised a failure the pipeline is over:
\* the steps that ran are those up to the one that raised, in pipeline
\* order, nothing runs after it, and the request is answered once, with the
\* response the boundary builds from that failure.
C25_FailureEndsPipeline ==
    /\ [][ call.thrown # None => call'.pc = "idle" ]_vars
    /\ [](call.thrown # None =>
            /\ call.pc = "done"
            /\ sent = << Response(CatchResponse(call.thrown), StatusOK) >>
            /\ call.raised_in = "kernel" => log = << >>
            /\ call.raised_in # "kernel" =>
                  /\ IsPrefix(log, FullLog(call.route))
                  /\ Len(log) =
                        IF call.raised_in = "before" THEN call.i
                        ELSE IF call.raised_in = "handler"
                             THEN Len(call.middlewares) + 1
                        ELSE Len(call.middlewares) + 1 + call.i)

\* The first of three before hooks raised an Error: status 500, one step.
C25_Witness ==
    /\ call.pc = "done"
    /\ call.raised_in = "before"
    /\ call.i = 1
    /\ Len(call.middlewares) = 3
    /\ Len(log) = 1
    /\ call.thrown.class = "Error"
    /\ Len(sent) = 1
    /\ sent[1].status = 500

(***************************************************************************)
(* Validator.validate on the rules of one attribute: values that evaluate  *)
(* to a number, a boolean, an array or an object, or do not evaluate, and  *)
(* rule strings over required, nullable, numeric, min:2 and max:2.         *)
(***************************************************************************)
Str_2 == << "2" >>
Str_empty_array == << "[", "]" >>
Str_array_1_2 == << "[", "1", ",", "2", "]" >>
Str_empty_object == << "(", "{", "}", ")" >>
Str_object_a_b == << "(", "{", "a", ":", "1", ",", "b", ":", "2", "}", ")" >>
Str_min_2 == Str_min \o << ":" >> \o Str_2
Str_max_2 == Str_max \o << ":" >> \o Str_2

CoercedValues ==
    { Null, Value(<< >>), Value(Str_2), Value(Str_10), Value(Str_true),
      Value(Str_false), Value(Str_abc), Value(Str_empty_array), Value(Str_array_1_2),
      Value(Str_empty_object), Value(Str_object_a_b) }

\* The attribute is an input parameter, a query parameter, both or neither.
RulesRequests ==
    { [ input_params |-> input, query_params |-> query ] :
        input \in UNION { [ names -> CoercedValues ] : names \in SUBSET Attributes },
        query \in UNION { [ names -> { Value(Str_2) } ] : names \in SUBSET Attributes } }

RulesSegments == { Str_required, Str_nullable, Str_numeric, Str_min_2, Str_max_2 }
RulesStrings ==
    { Join(pieces, "|") :
        pieces \in UNION { [ 1..n -> RulesSegments ] : n \in 1..MaxRules } }
RulesSpecs ==
    { << [ attribute |-> Attr_a, rules |-> ruleString ] >> : ruleString \in RulesStrings }

InitRules ==
    /\ DispatchIdle
    /\ MatchIdle
    /\ ResponseIdle
    /\ ReplaceIdle
    /\ TransformIdle
    /\ v_request \in RulesRequests
    /\ v_rules \in RulesSpecs
    /\ v_result = None
    /\ v_validated = None

NextRules == ValidatorValidate

SpecRules == InitRules /\ [][NextRules]_vars

(***************************************************************************)
(* Properties of the rules of one attribute (specification SpecRules).     *)
(***************************************************************************)
\* The rules of the attribute, the value validate() reads for it, and the
\* evaluations it made.
TheRules == ParseRules(v_rules[1].rules)
TheValue == Input(v_request, Attr_a)
Evaluated == v_result.evaluated
Rendered(rule) == Replace(rule.message, Placeholders(rule, Attr_a, TheValue))
Verdict(rule) == Passes(rule, v_request, Attr_a, TheValue, << >>).passes

\* The position of the first nullable rule, 0 when there is none.
FirstNullable ==
    IF \E k \in 1..Len(TheRules) : TheRules[k].class = "NullableRule"
    THEN CHOOSE k \in 1..Len(TheRules) :
            /\ TheRules[k].class = "NullableRule"
            /\ \A j \in 1..(k - 1) : TheRules[j].class # "NullableRule"
    ELSE 0
\* A required rule stands before the first nullable rule and fails.
RequiredFailsFirst ==
    /\ ~Has(v_request, Attr_a)
    /\ \E j \in 1..(FirstNullable - 1) : TheRules[j].class = "RequiredRule"

\* A passing rule with stopIfPass is the last rule evaluated.
StopIfPassStops ==
    \A k \in 1..Len(Evaluated) :
        (Evaluated[k].passes /\ TheRules[k].stopIfPass) => k = Len(Evaluated)

\* C26 as stated: a passing stopIfPass rule ends the attribute's rules, and
\* with nullable after other rules in the rule string a null value ends
\* without error.
C26_NullableAfterRulesClears ==
    v_result # None =>
        /\ StopIfPassStops
        /\ (/\ TheValue = Null
            /\ \E k \in 2..Len(TheRules) : TheRules[k].class = "NullableRule") =>
              ErrorsOf(Attr_a) = << >>

\* C26, amended: a passing stopIfPass rule ends the attribute's rules; with
\* a null value the first nullable rule, when it is reached, deletes the
\* attribute's errors and is the last rule evaluated; it is not reached
\* exactly when a required rule before it fails, and then the errors stay.
C26_NullableReachedClears ==
    v_result # None =>
        /\ StopIfPassStops
        /\ (TheValue = Null /\ FirstNullable # 0) =>
              IF RequiredFailsFirst
              THEN /\ Len(Evaluated) < FirstNullable
                   /\ ErrorsOf(Attr_a) # << >>
                   /\ ErrorsOf(Attr_a)[Len(ErrorsOf(Attr_a))] = Rendered(ParseRule(Str_required))
              ELSE /\ Len(Evaluated) = FirstNullable
                   /\ ErrorsOf(Attr_a) = << >>

\* "numeric|nullable" on an attribute that is no parameter: both rules were
\* evaluated and no error is left.
C26_Witness ==
    /\ v_result # None
    /\ v_rules[1].rules = Join(<< Str_numeric, Str_nullable >>, "|")
    /\ ~Has(v_request, Attr_a)
    /\ Len(Evaluated) = 2
    /\ Evaluated[1].added
    /\ v_result.valid

\* The messages of the failing, error-adding rules from position i up to
\* the first rule that stops, in rule order.
RECURSIVE ExpectedErrors(_)
ExpectedErrors(i) ==
    IF i > Len(TheRules) THEN << >>
    ELSE LET rule == TheRules[i]
             message == IF ~Verdict(rule) /\ rule.addErrorOnFailure
                        THEN << Rendered(rule) >> ELSE << >>
         IN  IF (~Verdict(rule) /\ rule.stopIfFail) \/ (Verdict(rule) /\ rule.stopIfPass)
             THEN message
             ELSE message \o ExpectedErrors(i + 1)

\* The rules run in the order of the pipe string, and a failing rule adds
\* its message exactly when its addErrorOnFailure flag is set; after a
\* failing rule with stopIfFail no rule runs.
RulesRunInOrder ==
    /\ Len(Evaluated) <= Len(TheRules)
    /\ \A k \in 1..Len(Evaluated) :
          /\ Evaluated[k].rule = TheRules[k].class
          /\ Evaluated[k].passes = Verdict(TheRules[k])
          /\ Evaluated[k].added = (~Evaluated[k].passes /\ TheRules[k].addErrorOnFailure)
          /\ (~Evaluated[k].passes /\ TheRules[k].stopIfFail) => k = Len(Evaluated)

\* C27 as stated: the error list of the attribute is the sequence of the
\* messages of the failing, error-adding rules up to the first stop.
C27_ErrorsAreFailingMessages ==
    v_result # None =>
        /\ RulesRunInOrder
        /\ ErrorsOf(Attr_a) = ExpectedErrors(1)

\* C27, amended: the same, unless a nullable rule passed: it deleted the
\* messages recorded before it and the attribute has no error.
C27_ErrorsUnlessNullablePassed ==
    v_result # None =>
        /\ RulesRunInOrder
        /\ ErrorsOf(Attr_a) =
              IF \E k \in 1..Len(Evaluated) :
                    Evaluated[k].rule = "NullableRule" /\ Evaluated[k].passes
              THEN << >>
              ELSE ExpectedErrors(1)

\* "numeric|min:2" on the value true: both rules fail and the attribute has
\* the numeric message, then the min message.
C27_Witness ==
    /\ v_result # None
    /\ v_rules[1].rules = Join(<< Str_numeric, Str_min_2 >>, "|")
    /\ TheValue = Value(Str_true)
    /\ Len(ErrorsOf(Attr_a)) = 2
    /\ ErrorsOf(Attr_a)[1] = Rendered(ParseRule(Str_numeric))
    /\ ErrorsOf(Attr_a)[2] = Rendered(ParseRule(Str_min_2))

\* C28: min:N passes exactly when the size of the value is greater than N
\* and max:N exactly when it is less than N; a size equal to N fails both.
C28_MinMaxStrict ==
    v_result # None =>
        \A k \in 1..Len(Evaluated) :
            LET size == TransformParam(TheValue).size.n
                N == Decimal(TheRules[k].targets[1])
            IN  /\ Evaluated[k].rule = "MinRule" => (Evaluated[k].passes <=> size > N)
                /\ Evaluated[k].rule = "MaxRule" => (Evaluated[k].passes <=> size < N)
                /\ (Evaluated[k].rule \in { "MinRule", "MaxRule" } /\ size = N) =>
                      ~Evaluated[k].passes

\* "min:2|max:2" on the value 2: both rules fail.
C28_Witness ==
    /\ v_result # None
    /\ v_rules[1].rules = Join(<< Str_min_2, Str_max_2 >>, "|")
    /\ TheValue = Value(Str_2)
    /\ Len(Evaluated) = 2
    /\ ~Evaluated[1].passes
    /\ ~Evaluated[2].passes
    /\ Len(ErrorsOf(Attr_a)) = 2

\* What JavaScript evaluates the model's raw strings to, and the size the
\* claim gives each: the number, 1 or 0 for a boolean, the length of an
\* array, the key count of an object, the length of a string that does not
\* evaluate.
ClaimedSizes ==
    << [ value |-> Str_2, type |-> "number", size |-> 2 ],
       [ value |-> Str_10, type |-> "number", size |-> 10 ],
       [ value |-> Str_true, type |-> "boolean", size |-> 1 ],
       [ value |-> Str_false, type |-> "boolean", size |-> 0 ],
       [ value |-> Str_empty_array, type |-> "array", size |-> 0 ],
       [ value |-> Str_array_1_2, type |-> "array", size |-> 2 ],
       [ value |-> Str_empty_object, type |-> "object", size |-> 0 ],
       [ value |-> Str_object_a_b, type |-> "object", size |-> 2 ],
       [ value |-> Str_abc, type |-> "string", size |-> 3 ] >>
Claimed(value) ==
    IF value # Null /\ \E i \in DOMAIN ClaimedSizes : ClaimedSizes[i].value = value.str
    THEN ClaimedSizes[CHOOSE i \in DOMAIN ClaimedSizes : ClaimedSizes[i].value = value.str]
    ELSE [ type |-> "other", size |-> 0 ]

\* C30: min and max compare the claimed size of the value with their
\* target, for a value that evaluates to a number, a boolean, an array or an
\* object or that fails to evaluate; numeric passes exactly when the value
\* evaluates to a number.
C30_SizeByEvaluatedType ==
    v_result # None =>
        \A k \in 1..Len(Evaluated) :
            LET claimed == Claimed(TheValue)
                N == Decimal(TheRules[k].targets[1])
            IN  /\ Evaluated[k].rule = "NumericRule" =>
                      (Evaluated[k].passes <=> claimed.type = "number")
                /\ (Evaluated[k].rule = "MinRule" /\ claimed.type # "other") =>
                      (Evaluated[k].passes <=> claimed.size > N)
                /\ (Evaluated[k].rule = "MaxRule" /\ claimed.type # "other") =>
                      (Evaluated[k].passes <=> claimed.size < N)

\* "numeric|min:2" on the value abc: it does not evaluate, numeric fails and
\* its length 3 passes min:2.
C30_Witness ==
    /\ v_result # None
    /\ v_rules[1].rules = Join(<< Str_numeric, Str_min_2 >>, "|")
    /\ TheValue = Value(Str_abc)
    /\ Len(Evaluated) = 2
    /\ ~Evaluated[1].passes
    /\ Evaluated[2].passes

(***************************************************************************)
(* The required rule on transformed requests (specification SpecRequest).  *)
(***************************************************************************)
\* The errors request.validate(rules) threw for an attribute, none when it
\* returned.
ThrownFor(attribute) ==
    IF v_validated.throws /\ attribute \in DOMAIN v_validated.error.additional
    THEN v_validated.error.additional[attribute]
    ELSE << >>

\* C29: required passes exactly when the attribute is a key of the input
\* parameters or of the query parameters, whatever its value is: a key
\* whose value is empty or null passes, an attribute that is a key of
\* neither mapping fails with the required message.
C29_RequiredIffKey ==
    v_validated # None =>
        \A i \in DOMAIN v_rules :
            v_rules[i].rules = Str_required =>
                LET attribute == v_rules[i].attribute
                    isKey == \/ attribute \in DOMAIN v_request.input_params
                             \/ attribute \in DOMAIN v_request.query_params
                IN  ThrownFor(attribute) =
                        IF isKey THEN << >>
                        ELSE << Replace(ParseRule(Str_required).message,
                                        Placeholders(ParseRule(Str_required), attribute, Null)) >>

\* A middleware rewrote the empty input a to null, a is no query parameter,
\* and validate({a: "required"}) returned.
C29_Witness ==
    /\ v_validated # None
    /\ v_rules = << [ attribute |-> Attr_a, rules |-> Str_required ] >>
    /\ Attr_a \in DOMAIN v_request.input_params
    /\ v_request.input_params[Attr_a] = Null
    /\ Attr_a \notin DOMAIN v_request.query_params
    /\ ~v_validated.throws

(***************************************************************************)
(* App.start's server loop: for await (const req of server) calls          *)
(* handleRequest(req) without awaiting it, so several requests are in      *)
(* flight.  An entry of in_flight is the call record of one handleRequest: *)
(* pc "body" while it is suspended at await req.body(), then the position  *)
(* inside the synchronous Kernel.handle, then "done" once req.respond has  *)
(* been given its response.                                                *)
(***************************************************************************)
PipelinePcs == { "before", "handler", "after" }

\* Mutant: a turn of the loop may begin while Route.handle is on the stack.
Running_Never == FALSE

\* Kernel.handle and Route.handle hold no await: from the first hook to the
\* return the call is on the stack, and no other continuation is run.
Running == \E i \in DOMAIN in_flight : in_flight[i].pc \in PipelinePcs

\* The synchronous part of handleRequest from Kernel.handle on, up to the
\* first hook or handler call.
EnterKernel(request) ==
    LET found == KernelHandle(routes, request)
    IN  IF found.throws
        THEN Raise([ IdleCall EXCEPT !.pc = "kernel", !.request = request ], found.error)
        ELSE EnterRoute(request, found.route, found.params, middleware_instances,
                        routes[found.route].options.middlewares)

\* The loop takes the next request and calls handleRequest(req): with a
\* body it suspends at await req.body(), without one it goes on into
\* Kernel.handle.
Accept(request, hasBody) ==
    /\ ~Running
    /\ Len(in_flight) < MaxInFlight
    /\ in_flight' = Append(in_flight,
                           IF hasBody
                           THEN [ IdleCall EXCEPT !.pc = "body", !.request = request ]
                           ELSE EnterKernel(request))
    /\ UNCHANGED << middleware, middleware_groups, kernel_routes, middleware_instances,
                    routes, booted, groupVars, instantiated, requestVars, matchVars,
                    validateVars, responseVars, replaceVars, transformVars >>

\* req.body() resolved: handleRequest number i goes on into Kernel.handle.
BodyRead(i) ==
    /\ ~Running
    /\ in_flight[i].pc = "body"
    /\ in_flight' = [ in_flight EXCEPT ![i] = EnterKernel(in_flight[i].request) ]
    /\ UNCHANGED << middleware, middleware_groups, kernel_routes, middleware_instances,
                    routes, booted, groupVars, instantiated, requestVars, matchVars,
                    validateVars, responseVars, replaceVars, transformVars >>

\* The next hook or handler call of Route.handle for request i gives outcome.
RouteStep(i, outcome) ==
    /\ in_flight[i].pc \in PipelinePcs
    /\ in_flight' =
          [ in_flight EXCEPT ![i] =
              IF in_flight[i].pc = "before" THEN BeforeStep(in_flight[i], outcome)
              ELSE IF in_flight[i].pc = "handler" THEN HandlerStep(in_flight[i], outcome)
              ELSE AfterStep(in_flight[i], outcome) ]
    /\ UNCHANGED << middleware, middleware_groups, kernel_routes, middleware_instances,
                    routes, booted, groupVars, instantiated, requestVars, matchVars,
                    validateVars, responseVars, replaceVars, transformVars >>

\* req.respond(...) of request i has written its response: the request is over.
Responded(i) ==
    /\ ~Running
    /\ in_flight[i].pc = "done"
    /\ in_flight' = [ j \in 1..(Len(in_flight) - 1) |->
                        IF j < i THEN in_flight[j] ELSE in_flight[j + 1] ]
    /\ UNCHANGED << middleware, middleware_groups, kernel_routes, middleware_instances,
                    routes, booted, groupVars, instantiated, requestVars, matchVars,
                    validateVars, responseVars, replaceVars, transformVars >>

\* What the hooks and the handlers of the served application give.
ServedHookOutcomes == { Returns(Void), Returns(Text(Str_no)), Throws(Error(Str_boom)) }
ServedHandlerOutcomes == { Returns(Text(Str_ok)), Throws(Error(Str_boom)) }
ServedOutcomes(c) ==
    IF c.pc = "handler" THEN ServedHandlerOutcomes ELSE ServedHookOutcomes

\* The kernel as App.start leaves it before the loop: both registrars
\* added and bootstrap() called once.
InitServer ==
    /\ middleware \in { << >>, << "A" >> }
    /\ middleware_groups = MiddlewareGroups
    /\ kernel_routes = << "web", "api" >>
    /\ middleware_instances = Instantiate(middleware)
    /\ routes = RunRegistrars(<< >>, middleware_groups, kernel_routes, 1)
    /\ booted = 1
    /\ call = IdleCall
    /\ log = << >>
    /\ sent = << >>
    /\ GroupIdle
    /\ in_flight = << >>
    /\ instantiated = Len(middleware_instances) + CountInstances(routes)
    /\ MatchIdle
    /\ ResponseIdle
    /\ ReplaceIdle
    /\ TransformIdle
    /\ ValidateIdle

NextServer ==
    \/ \E request \in Requests, hasBody \in BOOLEAN : Accept(request, hasBody)
    \/ \E i \in DOMAIN in_flight : BodyRead(i)
    \/ \E i \in DOMAIN in_flight :
          \E outcome \in ServedOutcomes(in_flight[i]) : RouteStep(i, outcome)
    \/ \E i \in DOMAIN in_flight : Responded(i)

SpecServer == InitServer /\ [][NextServer]_vars

(***************************************************************************)
(* Properties of the server loop (specification SpecServer).               *)
(***************************************************************************)
\* The requests that are between their first hook call and their response.
InPipeline == { i \in DOMAIN in_flight : in_flight[i].pc \in PipelinePcs }

\* While a request is in its pipeline no request is accepted, resumed or
\* finished, and every other request stays where it is.
OnlyThePipelineMoves ==
    \A i \in InPipeline :
        /\ Len(in_flight') = Len(in_flight)
        /\ \A j \in DOMAIN in_flight : j # i => in_flight'[j] = in_flight[j]

\* C24: no state has two requests between their first before hook and
\* their response, and from the first hook or handler call of a request to
\* its response every step is a hook or handler call of that request.
C24_PipelinesDoNotInterleave ==
    /\ [](Cardinality(InPipeline) <= 1)
    /\ [][OnlyThePipelineMoves]_vars

\* Two requests are in flight: the first still waits for its body, the
\* second has run its before hooks and handler and is in its after hooks.
C24_Witness ==
    /\ Len(in_flight) = 2
    /\ in_flight[1].pc = "body"
    /\ in_flight[2].pc = "after"
    /\ in_flight[2].i = 2

(***************************************************************************)
(* Routes registered with a group name as their middleware option, on a    *)
(* bootstrapped kernel, and requests handled by them.  The handler of a    *)
(* route is labelled with the group name it was registered with.           *)
(***************************************************************************)
GroupNames == { "web", "api", "none" }
GroupTables == { [ web |-> << "C" >> ], [ web |-> << "C", "B" >>, api |-> << "A" >> ] }
GroupOutcomes == { Returns(Void), Throws(Error(Str_boom)) }
GroupHandlerOutcomes == { Returns(Text(Str_ok)) }

InitGroups ==
    /\ middleware \in { << >>, << "A" >> }
    /\ middleware_groups \in GroupTables
    /\ kernel_routes = << >>
    /\ middleware_instances = Instantiate(middleware)
    /\ routes = << >>
    /\ booted = 1
    /\ call = IdleCall
    /\ log = << >>
    /\ sent = << >>
    /\ GroupIdle
    /\ ServerIdle
    /\ instantiated = Len(middleware)
    /\ MatchIdle
    /\ ResponseIdle
    /\ ReplaceIdle
    /\ TransformIdle
    /\ ValidateIdle

NextGroups ==
    \/ \E path \in RoutePaths, name \in GroupNames :
          RouterGet(path, name, [ middleware |-> MiddlewareGroup(name) ])
    \/ \E request \in Requests : HandleRequest(request)
    \/ \E outcome \in GroupOutcomes : Before(outcome)
    \/ \E outcome \in GroupHandlerOutcomes : Handler(outcome)
    \/ \E outcome \in GroupOutcomes : After(outcome)
    \/ Finish

SpecGroups == InitGroups /\ [][NextGroups]_vars

\* One instance of each class of the named group, in group order; none for
\* a name that is no key of the kernel's groups.
InstancesOfGroup(name) ==
    IF name \in DOMAIN middleware_groups
    THEN [ i \in 1..Len(middleware_groups[name]) |-> New(middleware_groups[name][i]) ]
    ELSE << >>

\* C31: a route registered with a group name holds one instance of each
\* class of that group, in group order, and none when the name is unknown;
\* registering it raises nothing (the route is in the table), and a request
\* it matches is handled with the global instances followed by those, so
\* with an unknown name by the global instances alone.
C31_GroupNameResolved ==
    /\ \A r \in DOMAIN routes :
          routes[r].options.middlewares = InstancesOfGroup(routes[r].handler)
    /\ call.pc \notin { "idle", "kernel" } =>
          \/ call.route = 0
          \/ /\ call.route \in DOMAIN routes
             /\ call.middlewares =
                   middleware_instances \o InstancesOfGroup(routes[call.route].handler)
    /\ (call.pc = "done" /\ call.raised_in = "kernel") =>
          MatchRoute(routes, call.request).route = 0

\* A route registered with the unknown name "none" on a kernel without
\* global middleware answered a request: its handler alone was called.
C31_Witness ==
    /\ call.pc = "done"
    /\ call.route \in DOMAIN routes
    /\ routes[call.route].handler = "none"
    /\ routes[call.route].options.middlewares = << >>
    /\ middleware_instances = << >>
    /\ call.thrown = None
    /\ Len(log) = 1
    /\ log[1].hook = "handler"

(***************************************************************************)
(* Bootstrap called again (specification SpecBoot).                        *)
(***************************************************************************)
\* C32: once bootstrap has been called, a further bootstrap call leaves the
\* router's route list as it is.
C32_BootstrapAgainKeepsRoutes ==
    [][ (booted >= 1 /\ booted' = booted + 1) => routes' = routes ]_vars

(***************************************************************************)
(* Registrars and the route table (specification Spec).                    *)
(***************************************************************************)
\* The routes of the table that a registrar callback registered: the direct
\* registrations of the model have the handler "get".
RECURSIVE RegistrarRoutes(_)
RegistrarRoutes(routeList) ==
    IF routeList = << >> THEN << >>
    ELSE (IF routeList[1].handler \in DOMAIN Registrars THEN << routeList[1] >> ELSE << >>)
            \o RegistrarRoutes(Tail(routeList))

\* Before the first bootstrap the table holds no route of a registrar, and
\* on a router without direct registration every request ends in NotFound;
\* a request handled by a registrar's route is handled after a bootstrap.
NoRegistrarRouteBeforeBootstrap ==
    /\ booted = 0 => RegistrarRoutes(routes) = << >>
    /\ (booted = 0 /\ routes = << >> /\ call.pc # "idle") =>
          /\ call.pc = "done"
          /\ call.thrown = NotFound
          /\ call.raised_in = "kernel"
    /\ (call.pc \notin { "idle", "kernel" } /\ call.route \in DOMAIN routes
            /\ routes[call.route].handler \in DOMAIN Registrars) => booted >= 1

\* C33: the routes of the registrars come into the table in bootstrap steps
\* only: none is there before the first bootstrap, where a router without
\* direct registration answers every request with NotFound, and add_routes
\* leaves the table as it is, before and after bootstrap.
C33_RegistrarRoutesComeWithBootstrap ==
    /\ [](NoRegistrarRouteBeforeBootstrap)
    /\ [][ /\ RegistrarRoutes(routes') # RegistrarRoutes(routes) => booted' = booted + 1
           /\ kernel_routes' # kernel_routes => routes' = routes ]_vars

\* The registrar api was added after the only bootstrap: POST /a, which its
\* route /:a would match, ends in NotFound.
C33_Witness ==
    /\ booted = 1
    /\ kernel_routes = << "api" >>
    /\ routes = << >>
    /\ call.pc = "done"
    /\ call.request = [ method |-> "POST", path |-> Str_a ]
    /\ call.thrown = NotFound

(***************************************************************************)
(* Validator.validate on the rules of one or two attributes, in either     *)
(* declaration order.                                                      *)
(***************************************************************************)
PairNames == { Attr_a, Attr_b }
PairRequests ==
    { [ input_params |-> input, query_params |-> query ] :
        input \in UNION { [ names -> { Value(Str_abc), Value(Str_5) } ] :
                            names \in SUBSET PairNames },
        query \in UNION { [ names -> { Value(Str_5) } ] : names \in SUBSET PairNames } }
PairRuleStrings ==
    { Str_required, Str_numeric, Join(<< Str_numeric, Str_nullable >>, "|"),
      Join(<< Str_required, Str_numeric >>, "|") }
PairRuleSpecs ==
    { << [ attribute |-> a, rules |-> r ] >> : a \in PairNames, r \in PairRuleStrings }
        \cup { << [ attribute |-> p[1], rules |-> r ], [ attribute |-> p[2], rules |-> q ] >> :
                  p \in { n \in PairNames \X PairNames : n[1] # n[2] },
                  r \in PairRuleStrings, q \in PairRuleStrings }

InitAttributes ==
    /\ DispatchIdle
    /\ MatchIdle
    /\ ResponseIdle
    /\ ReplaceIdle
    /\ TransformIdle
    /\ v_request \in PairRequests
    /\ v_rules \in PairRuleSpecs
    /\ v_result = None
    /\ v_validated = None

NextAttributes == ValidatorValidate

SpecAttributes == InitAttributes /\ [][NextAttributes]_vars

\* The request with the parameters of one name only.
OnlyAttribute(request, name) ==
    [ input_params |-> [ n \in DOMAIN request.input_params \cap { name } |->
                           request.input_params[n] ],
      query_params |-> [ n \in DOMAIN request.query_params \cap { name } |->
                           request.query_params[n] ] ]
\* The errors a validation of the attribute's rule string alone, on a
\* request that has this attribute's parameters only, records for it.
ErrorsAlone(entry) ==
    LET alone == Validate(OnlyAttribute(v_request, entry.attribute), << entry >>).errors
    IN  IF entry.attribute \in DOMAIN alone THEN alone[entry.attribute] ELSE << >>

\* C34: the errors recorded for an attribute are those its own rule string
\* gives on its own value and presence: they are the same whatever the
\* other attribute's rules, values or position are, and the errors object
\* has no key that is not a declared attribute.
C34_ErrorsOfOwnRulesOnly ==
    v_result # None =>
        /\ \A i \in DOMAIN v_rules : ErrorsOf(v_rules[i].attribute) = ErrorsAlone(v_rules[i])
        /\ DOMAIN v_result.errors \subseteq { v_rules[i].attribute : i \in DOMAIN v_rules }

\* a is abc with the rule numeric, then b is missing with numeric|nullable:
\* nullable deleted b's error and a's error is still there.
C34_Witness ==
    /\ v_result # None
    /\ v_rules = << [ attribute |-> Attr_a, rules |-> Str_numeric ],
                    [ attribute |-> Attr_b,
                      rules |-> Join(<< Str_numeric, Str_nullable >>, "|") ] >>
    /\ Input(v_request, Attr_a) = Value(Str_abc)
    /\ ~Has(v_request, Attr_b)
    /\ DOMAIN v_result.errors = { Attr_a }
    /\ Len(v_result.errors[Attr_a]) = 1
    /\ Len(v_result.evaluated) = 3

(***************************************************************************)
(* The accessors of a request (specification SpecRequest).                 *)
(***************************************************************************)
\* C35: in every request state the keys of all() are the names has() is
\* true for, the names of the input and query parameters together, and
\* all() gives each of them the value input() gives: an input parameter
\* shadows the query parameter of its name in both.
C35_AccessorsAgree ==
    /\ DOMAIN All(v_request) = { name \in RequestNames : Has(v_request, name) }
    /\ DOMAIN All(v_request) =
          DOMAIN v_request.input_params \cup DOMAIN v_request.query_params
    /\ \A name \in DOMAIN All(v_request) :
          /\ All(v_request)[name] = Input(v_request, name)
          /\ name \in DOMAIN v_request.input_params =>
                All(v_request)[name] = v_request.input_params[name]

\* After a transformation a is an input parameter with the value null and
\* a query parameter with the value 5: all() and input() give null.
C35_Witness ==
    /\ Attr_a \in DOMAIN v_request.input_params
    /\ Attr_a \in DOMAIN v_request.query_params
    /\ v_request.input_params[Attr_a] = Null
    /\ v_request.query_params[Attr_a] = Value(Str_5)
    /\ All(v_request)[Attr_a] = Null
    /\ Input(v_request, Attr_a) = Null

(***************************************************************************)
(* HTTPRequest.transformInputAndQuery on its own: one request, the two     *)
(* callbacks of the call, and the request the call leaves.  The TrimStrings *)
(* before hook is the call with its trimming callback given twice.         *)
(***************************************************************************)
TransformValues == ConstructedValues \cup { Null }
TransformParams ==
    UNION { [ names -> TransformValues ] : names \in SUBSET RequestNames }
TransformRequests ==
    { [ input_params |-> input, query_params |-> query ] :
        input \in TransformParams, query \in TransformParams }

\* request.transformInputAndQuery(input_callback, query_callback)
TransformCall ==
    /\ t_call # None
    /\ t_call.result = None
    /\ t_call' = [ t_call EXCEPT !.result =
                      TransformInputAndQuery(t_call.request, t_call.input_callback,
                                             t_call.query_callback) ]
    /\ UNCHANGED << dispatchVars, matchVars, validateVars, responseVars, replaceVars >>

InitTransform ==
    /\ DispatchIdle
    /\ MatchIdle
    /\ ValidateIdle
    /\ ResponseIdle
    /\ ReplaceIdle
    /\ t_call \in [ request : TransformRequests, input_callback : Callbacks,
                     query_callback : Callbacks, result : { None } ]

NextTransform == TransformCall

SpecTransform == InitTransform /\ [][NextTransform]_vars

\* C36: the call leaves every input parameter with the value
\* input_callback(name, value) and every query parameter with the value
\* query_callback(name, value), under the same names.
C36_EachMappingItsCallback ==
    (t_call # None /\ t_call.result # None) =>
        /\ DOMAIN t_call.result.input_params = DOMAIN t_call.request.input_params
        /\ DOMAIN t_call.result.query_params = DOMAIN t_call.request.query_params
        /\ \A name \in DOMAIN t_call.request.input_params :
              t_call.result.input_params[name] =
                  Apply(t_call.input_callback, name, t_call.request.input_params[name])
        /\ \A name \in DOMAIN t_call.request.query_params :
              t_call.result.query_params[name] =
                  Apply(t_call.query_callback, name, t_call.request.query_params[name])

\* The value is null or a non-empty string without white space at its ends.
NullOrTrimmed(value) ==
    value = Null \/ (value.str # << >> /\ Trim(value.str) = value.str)

\* C37: after the TrimStrings before hook no input or query parameter whose
\* name is outside the except list has the empty string as its value: each
\* is null or a non-empty string without leading or trailing white space.
C37_NoEmptyStringAfterTrim ==
    (/\ t_call # None
     /\ t_call.result # None
     /\ t_call.input_callback.kind = "trim"
     /\ t_call.query_callback = t_call.input_callback) =>
        /\ \A name \in DOMAIN t_call.result.input_params :
              ~Includes(t_call.input_callback.except, name) =>
                  NullOrTrimmed(t_call.result.input_params[name])
        /\ \A name \in DOMAIN t_call.result.query_params :
              ~Includes(t_call.input_callback.except, name) =>
                  NullOrTrimmed(t_call.result.query_params[name])

====
